---- MODULE Spec2Model ----
(***************************************************************************)
(* safemap-go: a map sharded over bucketTotal buckets, each bucket a plain *)
(* Go map guarded by its own sync.RWMutex, plus one atomic int32 counter.  *)
(* The model follows the current implementation of safeMap                 *)
(* (src/unnamed/part_010).  Every thread is a goroutine; one action is one *)
(* globally visible step of a method: a lock or unlock, an atomic counter  *)
(* operation, or one read/write of a bucket's inner map.                   *)
(***************************************************************************)
EXTENDS Integers, Sequences, FiniteSets, TLC

(* ------------------------------ bounds -------------------------------- *)
NumThreads == 3
NumCallers == 2
NumKeys == 2
NumVals == 2
MaxHash == 1
BucketBits == 1
MaxOps == 2
MaxOpts == 2
MaxSeq == 3
NumFns == 2
MaxFrames == 3
MaxDigest == 260

Threads == 1..NumThreads
Keys == 1..NumKeys
Vals == 1..NumVals
Digests == 0..MaxHash

(* The zero value of the value type V (Go: var val V). *)
ZeroVal == 0

(* No thread: the value of writer[b] when the bucket's lock is free. *)
NoThread == 0

VARIABLES
    hashFunc,   \* options.hashFunc: key -> uint64 digest (fixed at New)
    innerMap,   \* buckets[b].innerMap: the Go map of bucket b
    count,      \* safeMap.count, the atomic int32
    writer,     \* buckets[b].RWMutex: the thread holding it exclusively
    readers,    \* buckets[b].RWMutex: the threads holding it shared
    pc,         \* where each thread is inside the method it is running
    prog,       \* the calls each thread still has to make
    plan,       \* the calls each thread was started with (never changes)
    setup,      \* the map's content and count at the start (never changes)
    key,        \* the key argument of the running call
    val,        \* the val argument (for Range: the visit at which f says stop)
    index,      \* local index := m.hashIndex(key)
    i,          \* loop variable i of Clear, allLock, Range, allUnlock
    bucketLen,  \* Clear's local bucketLen
    ret,        \* the result of the call (returned when pc is back to idle)
    visited,    \* the (key, value) pairs handed to Range's visitor, in order
    options,    \* New's argument: the list of OptFuncs
    opt,        \* loadOpts' opt: the options struct under construction
    newI,       \* loadOpts' loop variable i (from 1)
    newPc,      \* where the call of New is
    newRet,     \* what New returned: the map (or nil) and the error
    intBits,    \* the width of Go's int in this build
    syncMap,    \* SyncMap.p: the content of the wrapped sync.Map
    frames,     \* the frames of SyncMap.Range on each goroutine's stack
    ints,       \* the integer each key is, in a map with integer keys
    rwLock,     \* RwLock.m: the table of the single-lock map
    rwRets      \* what the calls on the single-lock map returned, in order

vars == <<hashFunc, innerMap, count, writer, readers, pc, prog, plan, setup,
          key, val, index, i, bucketLen, ret, visited,
          options, opt, newI, newPc, newRet, intBits, syncMap, frames, ints,
          rwLock, rwRets>>

(* ---------------------------- configuration --------------------------- *)
(* WithBuckets(mask): bucketTotal = 1 << mask. *)
bucketTotal == 2 ^ BucketBits

Buckets == 0..(bucketTotal - 1)

(* a & b on non-negative integers. *)
RECURSIVE BitAnd(_, _)
BitAnd(a, b) ==
    IF a = 0 \/ b = 0 THEN 0
    ELSE (IF a % 2 = 1 /\ b % 2 = 1 THEN 1 ELSE 0) + 2 * BitAnd(a \div 2, b \div 2)

(* hashIndex returns key's bucket index. *)
hashIndex(k) == BitAnd(hashFunc[k], bucketTotal - 1)

(* ------------------------------ Go maps ------------------------------- *)
EmptyMap == [k \in {} |-> ZeroVal]

(* _, b := m[k] *)
Has(m, k) == k \in DOMAIN m

(* v, _ := m[k] : the zero value when k is not stored *)
Lookup(m, k) == IF k \in DOMAIN m THEN m[k] ELSE ZeroVal

(* m[k] = v *)
Store(m, k, v) == [x \in (DOMAIN m) \cup {k} |-> IF x = k THEN v ELSE m[x]]

(* delete(m, k) *)
Remove(m, k) == [x \in (DOMAIN m) \ {k} |-> m[x]]

RECURSIVE SumLen(_)
SumLen(bs) ==
    IF bs = {} THEN 0
    ELSE LET b == CHOOSE x \in bs : TRUE
         IN Cardinality(DOMAIN innerMap[b]) + SumLen(bs \ {b})

(* The number of entries physically stored in all bucket tables. *)
TotalEntries == SumLen(Buckets)

(* The content of the whole map as one key -> value table. *)
Content ==
    [k \in UNION {DOMAIN innerMap[b] : b \in Buckets} |->
        innerMap[CHOOSE b \in Buckets : k \in DOMAIN innerMap[b]][k]]

(* ---------------------------- sync.RWMutex ---------------------------- *)
(* Lock() can proceed: nobody holds the mutex in either mode. *)
CanLock(b) == writer[b] = NoThread /\ readers[b] = {}

(* RLock() can proceed: nobody holds the mutex exclusively. *)
CanRLock(b) == writer[b] = NoThread

Lock(t, b) == CanLock(b) /\ writer' = [writer EXCEPT ![b] = t] /\ UNCHANGED readers

Unlock(t, b) == writer' = [writer EXCEPT ![b] = NoThread] /\ UNCHANGED readers

RLock(t, b) == CanRLock(b) /\ readers' = [readers EXCEPT ![b] = @ \cup {t}] /\ UNCHANGED writer

RUnlock(t, b) == readers' = [readers EXCEPT ![b] = @ \ {t}] /\ UNCHANGED writer

(* ------------------------------- calls -------------------------------- *)
Call(o, k, v) == [op |-> o, key |-> k, val |-> v]

KeyedOps == {"Get", "Delete", "GetAndDelete"}
KeyValOps == {"Set", "GetOrSet"}
WholeOps == {"Clear", "Len", "IsEmpty"}

(* Every call a thread can make.  Range's val is the visit at which the    *)
(* visitor returns false; 0 is a visitor that always returns true.         *)
AllCalls ==
    {Call(o, k, ZeroVal) : o \in KeyedOps, k \in Keys}
    \cup {Call(o, k, v) : o \in KeyValOps, k \in Keys, v \in Vals}
    \cup {Call(o, 1, ZeroVal) : o \in WholeOps}
    \cup {Call("Range", 1, j) : j \in 0..NumKeys}

(* A program step AnyOf(S) stands for a call chosen from S when it is made. *)
AnyOf(S) == [op |-> "Any", among |-> S]

AnyCall == AnyOf(AllCalls)

Expand(c) == IF c.op = "Any" THEN c.among ELSE {c}

Entry(o) ==
    CASE o = "Get" -> "GetRLock"
      [] o = "Set" -> "SetLock"
      [] o = "Delete" -> "DeleteLock"
      [] o = "GetAndDelete" -> "GetAndDeleteLock"
      [] o = "GetOrSet" -> "GetOrSetLock"
      [] o = "Clear" -> "ClearLock"
      [] o = "Len" -> "Len"
      [] o = "IsEmpty" -> "IsEmpty"
      [] o = "Range" -> "RangeLock"
      [] o = "OldDelete" -> "OldDeleteLock"
      [] o = "OldGetAndDelete" -> "OldGetAndDeleteLock"
      [] o = "OldClear" -> "OldClearLock"
      [] o = "SyncGet" -> "SyncGet"
      [] o = "SyncSet" -> "SyncSet"
      [] o = "SyncGetOrSet" -> "SyncGetOrSet"
      [] o = "SyncRange" -> "SyncRange"

Result(v, b) == [val |-> v, ok |-> b]

NoResult == Result(ZeroVal, FALSE)

Idle(t) == pc[t] = "idle"

Quiescent == \A t \in Threads : Idle(t)

Goto(t, l) == pc' = [pc EXCEPT ![t] = l]

(* ------------------------- options and New ---------------------------- *)
(* An int of the options struct, kept as 0 or plus or minus a power of two *)
(* 2^exp: every value 1 << mask takes has this shape, in either width of   *)
(* int.                                                                    *)
IntZero == [sgn |-> 0, exp |-> 0]

Pow2(e) == [sgn |-> 1, exp |-> e]

(* 1 << mask in an int of w bits: the bit is shifted into the sign for     *)
(* mask = w - 1 and out of the word for mask >= w.                         *)
Shl1(mask, w) ==
    IF mask >= w THEN IntZero
    ELSE IF mask = w - 1 THEN [sgn |-> -1, exp |-> mask]
    ELSE Pow2(mask)

(* a > b on two such ints *)
Greater(a, b) ==
    IF a.sgn # b.sgn THEN a.sgn > b.sgn
    ELSE IF a.sgn = 1 THEN a.exp > b.exp
    ELSE IF a.sgn = -1 THEN a.exp < b.exp
    ELSE FALSE

(* defaultBucketCount = 1 << 5, maxBucketCount = 1 << 8 *)
defaultBucketCount == Pow2(5)

maxBucketCount == Pow2(8)

(* The widths of int the Go compiler has: GOARCH with 32 or 64 bit words. *)
IntWidths == {32, 64}

(* uint8, the type of WithBuckets' mask *)
Uint8 == 0..(2 ^ 8 - 1)

(* The hash functions a caller has at hand, and the nil func. *)
HashFns == 1..NumFns

NilFunc == 0

(* The OptFuncs a caller can pass to New. *)
OptFuncs ==
    {[name |-> "WithHashFunc", mask |-> 0, fn |-> f] : f \in HashFns}
    \cup {[name |-> "WithBuckets", mask |-> b, fn |-> NilFunc] : b \in Uint8}

(* WithBuckets(mask) applied to the struct o *)
WithBuckets(o, mask) ==
    IF Greater(Shl1(mask, intBits), maxBucketCount)
    THEN [o EXCEPT !.bucketTotal = maxBucketCount]
    ELSE [o EXCEPT !.bucketTotal = Shl1(mask, intBits)]

(* WithHashFunc(fn) applied to the struct o *)
WithHashFunc(o, fn) == [o EXCEPT !.hashFunc = fn]

(* opt := &options[K]{} *)
ZeroOptions == [bucketTotal |-> IntZero, hashFunc |-> NilFunc]

NoMapYet == [m |-> "none", err |-> "none"]

(* What a step of New leaves alone. *)
MapVars == <<hashFunc, innerMap, count, writer, readers, pc, prog, plan, setup,
             key, val, index, i, bucketLen, ret, visited, syncMap, frames, ints,
             rwLock, rwRets>>

(* loadOpts in which an option sets its field only when no earlier option  *)
(* has set it.                                                             *)
LoadOpt_FirstWins ==
    /\ newPc = "loadOpts"
    /\ newI <= Len(options)
    /\ opt' = IF options[newI].name = "WithBuckets"
              THEN IF opt.bucketTotal = IntZero
                   THEN WithBuckets(opt, options[newI].mask) ELSE opt
              ELSE IF opt.hashFunc = NilFunc
                   THEN WithHashFunc(opt, options[newI].fn) ELSE opt
    /\ newI' = newI + 1
    /\ UNCHANGED <<MapVars, options, newPc, newRet, intBits>>

(* for i := range opts { opts[i](opt) }: one turn *)
LoadOpt ==
    /\ newPc = "loadOpts"
    /\ newI <= Len(options)
    /\ opt' = IF options[newI].name = "WithBuckets"
              THEN WithBuckets(opt, options[newI].mask)
              ELSE WithHashFunc(opt, options[newI].fn)
    /\ newI' = newI + 1
    /\ UNCHANGED <<MapVars, options, newPc, newRet, intBits>>

(* The rest of loadOpts: the default for bucketTotal 0, the clamp to the   *)
(* maximum, and ErrMissingHashFunc for a nil hashFunc, on which New        *)
(* returns nil and the error.                                              *)
LoadOptsReturn ==
    /\ newPc = "loadOpts"
    /\ newI > Len(options)
    /\ LET b1 == IF opt.bucketTotal = IntZero THEN defaultBucketCount ELSE opt.bucketTotal
           b2 == IF Greater(b1, maxBucketCount) THEN maxBucketCount ELSE b1
       IN opt' = [opt EXCEPT !.bucketTotal = b2]
    /\ IF opt.hashFunc # NilFunc
       THEN newPc' = "make" /\ newRet' = newRet
       ELSE newPc' = "returned" /\ newRet' = [m |-> "nil", err |-> "ErrMissingHashFunc"]
    /\ UNCHANGED <<MapVars, options, newI, intBits>>

(* buckets: make([]*bucketMap[K, V], opt.bucketTotal), which panics for a  *)
(* negative length; then the buckets are filled and New returns m, nil.    *)
NewMake ==
    /\ newPc = "make"
    /\ IF opt.bucketTotal.sgn < 0
       THEN newPc' = "panicked" /\ newRet' = [m |-> "none", err |-> "panic"]
       ELSE newPc' = "returned" /\ newRet' = [m |-> "safeMap", err |-> "nil"]
    /\ UNCHANGED <<MapVars, options, opt, newI, intBits>>

(* The call New(WithHashFunc(h), WithBuckets(BucketBits)) has returned. *)
Constructed ==
    /\ options = <<[name |-> "WithHashFunc", mask |-> 0, fn |-> 1],
                   [name |-> "WithBuckets", mask |-> BucketBits, fn |-> NilFunc]>>
    /\ opt = [bucketTotal |-> Pow2(BucketBits), hashFunc |-> 1]
    /\ newI = 3
    /\ newPc = "returned"
    /\ newRet = [m |-> "safeMap", err |-> "nil"]
    /\ intBits = 64
    /\ syncMap = EmptyMap

(* Every content a map can hold: the partial tables from Keys to Vals. *)
Contents == UNION {[S -> Vals] : S \in SUBSET Keys}

(* The map built by New with hash function h and filled by Set(k, c[k])    *)
(* for every key of c, one call after the other: each entry sits in the    *)
(* bucket hashIndex names, count is the number of entries, every mutex is  *)
(* free.  The empty c is the map as New returns it.                        *)
NewMap(h, c) ==
    /\ hashFunc = h
    /\ innerMap = [b \in Buckets |->
                     [k \in {x \in DOMAIN c : hashIndex(x) = b} |-> c[k]]]
    /\ count = Cardinality(DOMAIN c)
    /\ writer = [b \in Buckets |-> NoThread]
    /\ readers = [b \in Buckets |-> {}]
    /\ setup = [content |-> c, count |-> Cardinality(DOMAIN c)]
    /\ Constructed

(* The goroutines before their first call; thread t is to run p[t]. *)
NoCalls(p) ==
    /\ pc = [t \in Threads |-> "idle"]
    /\ prog = p
    /\ plan = p
    /\ key = [t \in Threads |-> 1]
    /\ val = [t \in Threads |-> ZeroVal]
    /\ index = [t \in Threads |-> 0]
    /\ i = [t \in Threads |-> 0]
    /\ bucketLen = [t \in Threads |-> 0]
    /\ ret = [t \in Threads |-> NoResult]
    /\ visited = [t \in Threads |-> <<>>]
    /\ frames = [t \in Threads |-> 0]
    /\ ints = [k \in Keys |-> k]
    /\ rwLock = EmptyMap
    /\ rwRets = <<>>

AnyProg(n) == [j \in 1..n |-> AnyCall]

(* A new map; NumCallers goroutines make MaxOps calls each, any calls. *)
Init ==
    /\ \E h \in [Keys -> Digests] : NewMap(h, EmptyMap)
    /\ NoCalls([t \in Threads |-> IF t <= NumCallers THEN AnyProg(MaxOps) ELSE <<>>])

(* Thread t has made every call of its program and the last has returned. *)
Finished(t) == Idle(t) /\ prog[t] = <<>>

Done == \A t \in Threads : Finished(t)

(* A thread calls the next method of its program: the arguments are bound  *)
(* and index := m.hashIndex(key) is computed before any lock is taken.     *)
Invoke(t) ==
    /\ Idle(t)
    /\ prog[t] # <<>>
    /\ \E c \in Expand(Head(prog[t])) :
          /\ key' = [key EXCEPT ![t] = c.key]
          /\ val' = [val EXCEPT ![t] = c.val]
          /\ index' = [index EXCEPT ![t] = hashIndex(c.key)]
          /\ Goto(t, Entry(c.op))
          /\ visited' = [visited EXCEPT ![t] = IF c.op = "Range" THEN <<>> ELSE @]
    /\ prog' = [prog EXCEPT ![t] = Tail(@)]
    /\ i' = [i EXCEPT ![t] = 0]
    /\ ret' = [ret EXCEPT ![t] = NoResult]
    /\ UNCHANGED <<hashFunc, innerMap, count, writer, readers, bucketLen, plan, setup,
                   options, opt, newI, newPc, newRet, intBits, syncMap, frames, ints,
          rwLock, rwRets>>

(* What a step of thread t leaves alone besides the map, the counter, the  *)
(* locks, pc and ret.                                                      *)
Args == <<hashFunc, prog, plan, setup, key, val, index,
          options, opt, newI, newPc, newRet, intBits, syncMap, frames, ints,
          rwLock, rwRets>>

(* ------------------------------- Get ---------------------------------- *)
(* Get that stores the zero value for a key it does not find. *)
GetRLock_Insert(t) ==
    /\ pc[t] = "GetRLock"
    /\ RLock(t, index[t])
    /\ ret' = [ret EXCEPT ![t] =
                 Result(Lookup(innerMap[index[t]], key[t]), Has(innerMap[index[t]], key[t]))]
    /\ innerMap' = [innerMap EXCEPT ![index[t]] =
                       IF Has(@, key[t]) THEN @ ELSE Store(@, key[t], ZeroVal)]
    /\ Goto(t, "GetRUnlock")
    /\ UNCHANGED <<Args, count, i, bucketLen, visited>>

(* RLock the key's bucket and read val, b := innerMap[key]. *)
GetRLock(t) ==
    /\ pc[t] = "GetRLock"
    /\ RLock(t, index[t])
    /\ ret' = [ret EXCEPT ![t] =
                 Result(Lookup(innerMap[index[t]], key[t]), Has(innerMap[index[t]], key[t]))]
    /\ Goto(t, "GetRUnlock")
    /\ UNCHANGED <<Args, innerMap, count, i, bucketLen, visited>>

(* RUnlock and return val, b. *)
GetRUnlock(t) ==
    /\ pc[t] = "GetRUnlock"
    /\ RUnlock(t, index[t])
    /\ Goto(t, "idle")
    /\ UNCHANGED <<Args, innerMap, count, i, bucketLen, ret, visited>>

(* ------------------------------- Set ---------------------------------- *)
(* Set that counts every call, without testing whether the key is stored. *)
SetLock_AlwaysCount(t) ==
    /\ pc[t] = "SetLock"
    /\ Lock(t, index[t])
    /\ Goto(t, "SetCount")
    /\ UNCHANGED <<Args, innerMap, count, i, bucketLen, ret, visited>>

(* Set that takes the bucket's lock shared (RLock). *)
SetLock_Shared(t) ==
    /\ pc[t] = "SetLock"
    /\ RLock(t, index[t])
    /\ Goto(t, IF Has(innerMap[index[t]], key[t]) THEN "SetWrite" ELSE "SetCount")
    /\ UNCHANGED <<Args, innerMap, count, i, bucketLen, ret, visited>>

(* Lock the key's bucket and test whether the key is stored. *)
SetLock(t) ==
    /\ pc[t] = "SetLock"
    /\ Lock(t, index[t])
    /\ Goto(t, IF Has(innerMap[index[t]], key[t]) THEN "SetWrite" ELSE "SetCount")
    /\ UNCHANGED <<Args, innerMap, count, i, bucketLen, ret, visited>>

(* The key is new: atomic.AddInt32(&m.count, 1), before the write. *)
SetCount(t) ==
    /\ pc[t] = "SetCount"
    /\ count' = count + 1
    /\ Goto(t, "SetWrite")
    /\ UNCHANGED <<Args, innerMap, writer, readers, i, bucketLen, ret, visited>>

(* Set that keeps the value of a key already stored. *)
SetWrite_KeepOld(t) ==
    /\ pc[t] = "SetWrite"
    /\ innerMap' = [innerMap EXCEPT ![index[t]] =
                       IF Has(@, key[t]) THEN @ ELSE Store(@, key[t], val[t])]
    /\ Goto(t, "SetUnlock")
    /\ UNCHANGED <<Args, count, writer, readers, i, bucketLen, ret, visited>>

(* innerMap[key] = val *)
SetWrite(t) ==
    /\ pc[t] = "SetWrite"
    /\ innerMap' = [innerMap EXCEPT ![index[t]] = Store(@, key[t], val[t])]
    /\ Goto(t, "SetUnlock")
    /\ UNCHANGED <<Args, count, writer, readers, i, bucketLen, ret, visited>>

SetUnlock(t) ==
    /\ pc[t] = "SetUnlock"
    /\ Unlock(t, index[t])
    /\ Goto(t, "idle")
    /\ UNCHANGED <<Args, innerMap, count, i, bucketLen, ret, visited>>

(* ------------------------------ Delete -------------------------------- *)
(* Delete that deletes and counts without testing whether the key is       *)
(* stored.                                                                 *)
DeleteLock_NoCheck(t) ==
    /\ pc[t] = "DeleteLock"
    /\ Lock(t, index[t])
    /\ Goto(t, "DeleteRemove")
    /\ UNCHANGED <<Args, innerMap, count, i, bucketLen, ret, visited>>

DeleteLock(t) ==
    /\ pc[t] = "DeleteLock"
    /\ Lock(t, index[t])
    /\ Goto(t, IF Has(innerMap[index[t]], key[t]) THEN "DeleteRemove" ELSE "DeleteUnlock")
    /\ UNCHANGED <<Args, innerMap, count, i, bucketLen, ret, visited>>

(* delete(innerMap, key) *)
DeleteRemove(t) ==
    /\ pc[t] = "DeleteRemove"
    /\ innerMap' = [innerMap EXCEPT ![index[t]] = Remove(@, key[t])]
    /\ Goto(t, "DeleteCount")
    /\ UNCHANGED <<Args, count, writer, readers, i, bucketLen, ret, visited>>

(* atomic.AddInt32(&m.count, -1), after the delete. *)
DeleteCount(t) ==
    /\ pc[t] = "DeleteCount"
    /\ count' = count - 1
    /\ Goto(t, "DeleteUnlock")
    /\ UNCHANGED <<Args, innerMap, writer, readers, i, bucketLen, ret, visited>>

DeleteUnlock(t) ==
    /\ pc[t] = "DeleteUnlock"
    /\ Unlock(t, index[t])
    /\ Goto(t, "idle")
    /\ UNCHANGED <<Args, innerMap, count, i, bucketLen, ret, visited>>

(* --------------------------- GetAndDelete ----------------------------- *)
(* GetAndDelete that takes the bucket's lock shared (RLock) for its read,  *)
(* as a Get followed by a Delete would.                                    *)
GetAndDeleteLock_Shared(t) ==
    /\ pc[t] = "GetAndDeleteLock"
    /\ RLock(t, index[t])
    /\ ret' = [ret EXCEPT ![t] =
                 Result(Lookup(innerMap[index[t]], key[t]), Has(innerMap[index[t]], key[t]))]
    /\ Goto(t, IF Has(innerMap[index[t]], key[t])
               THEN "GetAndDeleteRemove" ELSE "GetAndDeleteUnlock")
    /\ UNCHANGED <<Args, innerMap, count, i, bucketLen, visited>>

(* Lock the key's bucket and read val, b := innerMap[key]. *)
GetAndDeleteLock(t) ==
    /\ pc[t] = "GetAndDeleteLock"
    /\ Lock(t, index[t])
    /\ ret' = [ret EXCEPT ![t] =
                 Result(Lookup(innerMap[index[t]], key[t]), Has(innerMap[index[t]], key[t]))]
    /\ Goto(t, IF Has(innerMap[index[t]], key[t])
               THEN "GetAndDeleteRemove" ELSE "GetAndDeleteUnlock")
    /\ UNCHANGED <<Args, innerMap, count, i, bucketLen, visited>>

(* GetAndDelete that leaves the key in the table. *)
GetAndDeleteRemove_Skip(t) ==
    /\ pc[t] = "GetAndDeleteRemove"
    /\ innerMap' = innerMap
    /\ Goto(t, "GetAndDeleteCount")
    /\ UNCHANGED <<Args, count, writer, readers, i, bucketLen, ret, visited>>

GetAndDeleteRemove(t) ==
    /\ pc[t] = "GetAndDeleteRemove"
    /\ innerMap' = [innerMap EXCEPT ![index[t]] = Remove(@, key[t])]
    /\ Goto(t, "GetAndDeleteCount")
    /\ UNCHANGED <<Args, count, writer, readers, i, bucketLen, ret, visited>>

(* GetAndDelete that leaves the counter alone, as the first versions of    *)
(* the map did (src/map.go, GetAndDelete).                                 *)
GetAndDeleteCount_Skip(t) ==
    /\ pc[t] = "GetAndDeleteCount"
    /\ count' = count
    /\ Goto(t, "GetAndDeleteUnlock")
    /\ UNCHANGED <<Args, innerMap, writer, readers, i, bucketLen, ret, visited>>

GetAndDeleteCount(t) ==
    /\ pc[t] = "GetAndDeleteCount"
    /\ count' = count - 1
    /\ Goto(t, "GetAndDeleteUnlock")
    /\ UNCHANGED <<Args, innerMap, writer, readers, i, bucketLen, ret, visited>>

GetAndDeleteUnlock(t) ==
    /\ pc[t] = "GetAndDeleteUnlock"
    /\ Unlock(t, index[t])
    /\ Goto(t, "idle")
    /\ UNCHANGED <<Args, innerMap, count, i, bucketLen, ret, visited>>

(* ----------------------------- GetOrSet ------------------------------- *)
(* GetOrSet that takes the bucket's lock shared (RLock) for its check, as  *)
(* a Get followed by a conditional Set would.                              *)
GetOrSetLock_Shared(t) ==
    /\ pc[t] = "GetOrSetLock"
    /\ RLock(t, index[t])
    /\ IF Has(innerMap[index[t]], key[t])
       THEN /\ ret' = [ret EXCEPT ![t] = Result(innerMap[index[t]][key[t]], TRUE)]
            /\ Goto(t, "GetOrSetUnlock")
       ELSE /\ ret' = ret
            /\ Goto(t, "GetOrSetWrite")
    /\ UNCHANGED <<Args, innerMap, count, i, bucketLen, visited>>

(* Lock the key's bucket and read val, b := innerMap[key]; when b, the     *)
(* stored value is what the call returns.                                  *)
GetOrSetLock(t) ==
    /\ pc[t] = "GetOrSetLock"
    /\ Lock(t, index[t])
    /\ IF Has(innerMap[index[t]], key[t])
       THEN /\ ret' = [ret EXCEPT ![t] = Result(innerMap[index[t]][key[t]], TRUE)]
            /\ Goto(t, "GetOrSetUnlock")
       ELSE /\ ret' = ret
            /\ Goto(t, "GetOrSetWrite")
    /\ UNCHANGED <<Args, innerMap, count, i, bucketLen, visited>>

(* innerMap[key] = val *)
GetOrSetWrite(t) ==
    /\ pc[t] = "GetOrSetWrite"
    /\ innerMap' = [innerMap EXCEPT ![index[t]] = Store(@, key[t], val[t])]
    /\ ret' = [ret EXCEPT ![t] = Result(val[t], FALSE)]
    /\ Goto(t, "GetOrSetCount")
    /\ UNCHANGED <<Args, count, writer, readers, i, bucketLen, visited>>

(* GetOrSet that stores without counting, as GetOrStore of the earlier     *)
(* version did (src/unnamed/part_012, GetOrStore).                         *)
GetOrSetCount_Skip(t) ==
    /\ pc[t] = "GetOrSetCount"
    /\ count' = count
    /\ Goto(t, "GetOrSetUnlock")
    /\ UNCHANGED <<Args, innerMap, writer, readers, i, bucketLen, ret, visited>>

(* atomic.AddInt32(&m.count, 1), after the write. *)
GetOrSetCount(t) ==
    /\ pc[t] = "GetOrSetCount"
    /\ count' = count + 1
    /\ Goto(t, "GetOrSetUnlock")
    /\ UNCHANGED <<Args, innerMap, writer, readers, i, bucketLen, ret, visited>>

GetOrSetUnlock(t) ==
    /\ pc[t] = "GetOrSetUnlock"
    /\ Unlock(t, index[t])
    /\ Goto(t, "idle")
    /\ UNCHANGED <<Args, innerMap, count, i, bucketLen, ret, visited>>

(* ------------------------------- Clear -------------------------------- *)
(* Clear that walks the buckets from the last to the first. *)
ClearBucket_Descending(t) == bucketTotal - 1 - i[t]

(* m.buckets[i]: the bucket turn i of Clear's loop works on. *)
ClearBucket(t) == i[t]

(* Bucket i of the loop: Lock it and take bucketLen := len(innerMap). *)
ClearLock(t) ==
    /\ pc[t] = "ClearLock"
    /\ Lock(t, ClearBucket(t))
    /\ bucketLen' = [bucketLen EXCEPT ![t] = Cardinality(DOMAIN innerMap[ClearBucket(t)])]
    /\ Goto(t, IF DOMAIN innerMap[ClearBucket(t)] = {} THEN "ClearCount" ELSE "ClearDelete")
    /\ UNCHANGED <<Args, innerMap, count, i, ret, visited>>

(* One turn of for key := range innerMap { delete(innerMap, key) }. *)
ClearDelete(t) ==
    /\ pc[t] = "ClearDelete"
    /\ \E k \in DOMAIN innerMap[ClearBucket(t)] :
          /\ innerMap' = [innerMap EXCEPT ![ClearBucket(t)] = Remove(@, k)]
          /\ Goto(t, IF DOMAIN innerMap[ClearBucket(t)] = {k} THEN "ClearCount" ELSE "ClearDelete")
    /\ UNCHANGED <<Args, count, writer, readers, i, bucketLen, ret, visited>>

(* Clear that counts a cleared bucket as one entry. *)
ClearCount_One(t) ==
    /\ pc[t] = "ClearCount"
    /\ count' = count - 1
    /\ Goto(t, "ClearUnlock")
    /\ UNCHANGED <<Args, innerMap, writer, readers, i, bucketLen, ret, visited>>

(* atomic.AddInt32(&m.count, -int32(bucketLen)) *)
ClearCount(t) ==
    /\ pc[t] = "ClearCount"
    /\ count' = count - bucketLen[t]
    /\ Goto(t, "ClearUnlock")
    /\ UNCHANGED <<Args, innerMap, writer, readers, i, bucketLen, ret, visited>>

(* Clear whose loop leaves out the last bucket (i < bucketTotal-1). *)
ClearUnlock_Short(t) ==
    /\ pc[t] = "ClearUnlock"
    /\ Unlock(t, ClearBucket(t))
    /\ i' = [i EXCEPT ![t] = IF @ + 1 < bucketTotal - 1 THEN @ + 1 ELSE 0]
    /\ bucketLen' = [bucketLen EXCEPT ![t] = 0]
    /\ Goto(t, IF i[t] + 1 < bucketTotal - 1 THEN "ClearLock" ELSE "idle")
    /\ UNCHANGED <<Args, innerMap, count, ret, visited>>

(* Unlock bucket i; i++; the loop ends after the last bucket. *)
ClearUnlock(t) ==
    /\ pc[t] = "ClearUnlock"
    /\ Unlock(t, ClearBucket(t))
    /\ i' = [i EXCEPT ![t] = IF @ + 1 < bucketTotal THEN @ + 1 ELSE 0]
    /\ bucketLen' = [bucketLen EXCEPT ![t] = 0]
    /\ Goto(t, IF i[t] + 1 < bucketTotal THEN "ClearLock" ELSE "idle")
    /\ UNCHANGED <<Args, innerMap, count, ret, visited>>

(* --------------------------- Len, IsEmpty ----------------------------- *)
(* Len that reads the counter under the read lock of the first bucket. *)
MapLen_Locked(t) ==
    /\ pc[t] = "Len"
    /\ CanRLock(0)
    /\ ret' = [ret EXCEPT ![t] = Result(count, TRUE)]
    /\ Goto(t, "idle")
    /\ UNCHANGED <<Args, innerMap, count, writer, readers, i, bucketLen, visited>>

(* int(atomic.LoadInt32(&m.count)) *)
MapLen(t) ==
    /\ pc[t] = "Len"
    /\ ret' = [ret EXCEPT ![t] = Result(count, TRUE)]
    /\ Goto(t, "idle")
    /\ UNCHANGED <<Args, innerMap, count, writer, readers, i, bucketLen, visited>>

(* atomic.LoadInt32(&m.count) == 0 *)
IsEmpty(t) ==
    /\ pc[t] = "IsEmpty"
    /\ ret' = [ret EXCEPT ![t] = Result(ZeroVal, count = 0)]
    /\ Goto(t, "idle")
    /\ UNCHANGED <<Args, innerMap, count, writer, readers, i, bucketLen, visited>>

(* ------------------------------- Range -------------------------------- *)
(* Range that starts to visit without allLock. *)
RangeLock_Skipped(t) ==
    /\ pc[t] = "RangeLock"
    /\ Goto(t, "RangeVisit")
    /\ UNCHANGED <<Args, innerMap, count, writer, readers, i, bucketLen, ret, visited>>

(* allLock whose order is the caller's own: even threads lock downwards. *)
RangeLock_OwnOrder(t) ==
    /\ pc[t] = "RangeLock"
    /\ Lock(t, IF t % 2 = 0 THEN bucketTotal - 1 - i[t] ELSE i[t])
    /\ i' = [i EXCEPT ![t] = IF @ + 1 < bucketTotal THEN @ + 1 ELSE 0]
    /\ Goto(t, IF i[t] + 1 < bucketTotal THEN "RangeLock" ELSE "RangeVisit")
    /\ UNCHANGED <<Args, innerMap, count, bucketLen, ret, visited>>

(* allLock: Lock bucket i, in ascending order; then the visit starts at    *)
(* bucket 0.                                                               *)
RangeLock(t) ==
    /\ pc[t] = "RangeLock"
    /\ Lock(t, i[t])
    /\ i' = [i EXCEPT ![t] = IF @ + 1 < bucketTotal THEN @ + 1 ELSE 0]
    /\ Goto(t, IF i[t] + 1 < bucketTotal THEN "RangeLock" ELSE "RangeVisit")
    /\ UNCHANGED <<Args, innerMap, count, bucketLen, ret, visited>>

(* The keys of bucket b the running Range has not handed to f yet. *)
Unvisited(t, b) ==
    {k \in DOMAIN innerMap[b] : \A n \in 1..Len(visited[t]) : visited[t][n][1] # k}

(* Range whose visitor's false only breaks the inner loop: the iteration   *)
(* goes on with the next bucket.                                           *)
RangeVisit_BreakInner(t) ==
    /\ pc[t] = "RangeVisit"
    /\ IF Unvisited(t, i[t]) # {}
       THEN \E k \in Unvisited(t, i[t]) :
               /\ visited' = [visited EXCEPT ![t] = Append(@, <<k, innerMap[i[t]][k]>>)]
               /\ IF Len(visited[t]) + 1 = val[t]
                  THEN /\ i' = [i EXCEPT ![t] = IF @ + 1 < bucketTotal THEN @ + 1 ELSE 0]
                       /\ Goto(t, IF i[t] + 1 < bucketTotal THEN "RangeVisit" ELSE "RangeUnlock")
                  ELSE Goto(t, "RangeVisit") /\ i' = i
       ELSE /\ visited' = visited
            /\ i' = [i EXCEPT ![t] = IF @ + 1 < bucketTotal THEN @ + 1 ELSE 0]
            /\ Goto(t, IF i[t] + 1 < bucketTotal THEN "RangeVisit" ELSE "RangeUnlock")
    /\ UNCHANGED <<Args, innerMap, count, writer, readers, bucketLen, ret>>

(* Range that returns at once when f returns false, without allUnlock. *)
RangeVisit_NoUnlock(t) ==
    /\ pc[t] = "RangeVisit"
    /\ IF Unvisited(t, i[t]) # {}
       THEN \E k \in Unvisited(t, i[t]) :
               /\ visited' = [visited EXCEPT ![t] = Append(@, <<k, innerMap[i[t]][k]>>)]
               /\ IF Len(visited[t]) + 1 = val[t]
                  THEN Goto(t, "idle") /\ i' = [i EXCEPT ![t] = 0]
                  ELSE Goto(t, "RangeVisit") /\ i' = i
       ELSE /\ visited' = visited
            /\ i' = [i EXCEPT ![t] = IF @ + 1 < bucketTotal THEN @ + 1 ELSE 0]
            /\ Goto(t, IF i[t] + 1 < bucketTotal THEN "RangeVisit" ELSE "RangeUnlock")
    /\ UNCHANGED <<Args, innerMap, count, writer, readers, bucketLen, ret>>

(* One turn of the loops: f(key, val) for an entry of bucket i in the      *)
(* map's (unspecified) iteration order; f returns false at visit val[t].   *)
(* With bucket i exhausted the outer loop goes on to bucket i+1.           *)
RangeVisit(t) ==
    /\ pc[t] = "RangeVisit"
    /\ IF Unvisited(t, i[t]) # {}
       THEN \E k \in Unvisited(t, i[t]) :
               /\ visited' = [visited EXCEPT ![t] = Append(@, <<k, innerMap[i[t]][k]>>)]
               /\ IF Len(visited[t]) + 1 = val[t]
                  THEN Goto(t, "RangeUnlock") /\ i' = [i EXCEPT ![t] = 0]
                  ELSE Goto(t, "RangeVisit") /\ i' = i
       ELSE /\ visited' = visited
            /\ i' = [i EXCEPT ![t] = IF @ + 1 < bucketTotal THEN @ + 1 ELSE 0]
            /\ Goto(t, IF i[t] + 1 < bucketTotal THEN "RangeVisit" ELSE "RangeUnlock")
    /\ UNCHANGED <<Args, innerMap, count, writer, readers, bucketLen, ret>>

(* allUnlock: Unlock bucket i, in ascending order; then Range returns. *)
RangeUnlock(t) ==
    /\ pc[t] = "RangeUnlock"
    /\ Unlock(t, i[t])
    /\ i' = [i EXCEPT ![t] = IF @ + 1 < bucketTotal THEN @ + 1 ELSE 0]
    /\ Goto(t, IF i[t] + 1 < bucketTotal THEN "RangeUnlock" ELSE "idle")
    /\ UNCHANGED <<Args, innerMap, count, bucketLen, ret, visited>>

(* ------------- the earlier version (src/unnamed/part_012) ------------- *)
(* Get, Set, Len (Cap in src/map.go) and IsEmpty of the earlier version    *)
(* are the code modelled above; Delete, GetAndDelete and Clear differ.     *)
(* Lock the key's bucket and test whether the key is stored. *)
OldDeleteLock(t) ==
    /\ pc[t] = "OldDeleteLock"
    /\ Lock(t, index[t])
    /\ Goto(t, IF Has(innerMap[index[t]], key[t]) THEN "OldDeleteCount" ELSE "OldDeleteUnlock")
    /\ UNCHANGED <<Args, innerMap, count, i, bucketLen, ret, visited>>

(* atomic.AddInt32(&m.count, -1), before the delete. *)
OldDeleteCount(t) ==
    /\ pc[t] = "OldDeleteCount"
    /\ count' = count - 1
    /\ Goto(t, "OldDeleteRemove")
    /\ UNCHANGED <<Args, innerMap, writer, readers, i, bucketLen, ret, visited>>

(* delete(innerMap, key) *)
OldDeleteRemove(t) ==
    /\ pc[t] = "OldDeleteRemove"
    /\ innerMap' = [innerMap EXCEPT ![index[t]] = Remove(@, key[t])]
    /\ Goto(t, "OldDeleteUnlock")
    /\ UNCHANGED <<Args, count, writer, readers, i, bucketLen, ret, visited>>

OldDeleteUnlock(t) ==
    /\ pc[t] = "OldDeleteUnlock"
    /\ Unlock(t, index[t])
    /\ Goto(t, "idle")
    /\ UNCHANGED <<Args, innerMap, count, i, bucketLen, ret, visited>>

(* Lock the key's bucket and read val, b := innerMap[key]. *)
OldGetAndDeleteLock(t) ==
    /\ pc[t] = "OldGetAndDeleteLock"
    /\ Lock(t, index[t])
    /\ ret' = [ret EXCEPT ![t] =
                 Result(Lookup(innerMap[index[t]], key[t]), Has(innerMap[index[t]], key[t]))]
    /\ Goto(t, IF Has(innerMap[index[t]], key[t])
               THEN "OldGetAndDeleteRemove" ELSE "OldGetAndDeleteUnlock")
    /\ UNCHANGED <<Args, innerMap, count, i, bucketLen, visited>>

(* delete(innerMap, key); the counter is not touched. *)
OldGetAndDeleteRemove(t) ==
    /\ pc[t] = "OldGetAndDeleteRemove"
    /\ innerMap' = [innerMap EXCEPT ![index[t]] = Remove(@, key[t])]
    /\ Goto(t, "OldGetAndDeleteUnlock")
    /\ UNCHANGED <<Args, count, writer, readers, i, bucketLen, ret, visited>>

OldGetAndDeleteUnlock(t) ==
    /\ pc[t] = "OldGetAndDeleteUnlock"
    /\ Unlock(t, index[t])
    /\ Goto(t, "idle")
    /\ UNCHANGED <<Args, innerMap, count, i, bucketLen, ret, visited>>

(* Clear, first loop: Lock bucket i, in ascending order. *)
OldClearLock(t) ==
    /\ pc[t] = "OldClearLock"
    /\ Lock(t, i[t])
    /\ i' = [i EXCEPT ![t] = IF @ + 1 < bucketTotal THEN @ + 1 ELSE 0]
    /\ Goto(t, IF i[t] + 1 < bucketTotal THEN "OldClearLock" ELSE "OldClearMake")
    /\ UNCHANGED <<Args, innerMap, count, bucketLen, ret, visited>>

(* Clear, second loop: listShared[i].innerMap = make(map[K]V) *)
OldClearMake(t) ==
    /\ pc[t] = "OldClearMake"
    /\ innerMap' = [innerMap EXCEPT ![i[t]] = EmptyMap]
    /\ Goto(t, "OldClearUnlock")
    /\ UNCHANGED <<Args, count, writer, readers, i, bucketLen, ret, visited>>

(* Clear, second loop: listShared[i].Unlock(); i++ *)
OldClearUnlock(t) ==
    /\ pc[t] = "OldClearUnlock"
    /\ Unlock(t, i[t])
    /\ i' = [i EXCEPT ![t] = IF @ + 1 < bucketTotal THEN @ + 1 ELSE 0]
    /\ Goto(t, IF i[t] + 1 < bucketTotal THEN "OldClearMake" ELSE "OldClearStore")
    /\ UNCHANGED <<Args, innerMap, count, bucketLen, ret, visited>>

(* atomic.StoreInt32(&m.count, 0), after the loops; Clear returns. *)
OldClearStore(t) ==
    /\ pc[t] = "OldClearStore"
    /\ count' = 0
    /\ Goto(t, "idle")
    /\ UNCHANGED <<Args, innerMap, writer, readers, i, bucketLen, ret, visited>>

(* ----------------------- SyncMap (src/sync_map.go) -------------------- *)
(* SyncMap wraps a sync.Map, whose methods are atomic: one step each.      *)
(* What a method of SyncMap leaves alone besides pc, ret, syncMap, frames. *)
SafeMapVars == <<hashFunc, innerMap, count, writer, readers, prog, plan, setup,
                 key, val, index, i, bucketLen, visited,
                 options, opt, newI, newPc, newRet, intBits, ints, rwLock, rwRets>>

(* _val, exists := m.p.Load(key): return _val.(V), true or value, false *)
SyncGet(t) ==
    /\ pc[t] = "SyncGet"
    /\ ret' = [ret EXCEPT ![t] = Result(Lookup(syncMap, key[t]), Has(syncMap, key[t]))]
    /\ Goto(t, "idle")
    /\ UNCHANGED <<SafeMapVars, syncMap, frames>>

(* m.p.Store(key, value) *)
SyncSet(t) ==
    /\ pc[t] = "SyncSet"
    /\ syncMap' = Store(syncMap, key[t], val[t])
    /\ Goto(t, "idle")
    /\ UNCHANGED <<SafeMapVars, ret, frames>>

(* _val, loaded := m.p.LoadOrStore(key, val): return _val.(V), true when   *)
(* loaded, and otherwise actual, false with the named result actual, which *)
(* nothing has assigned.                                                   *)
SyncGetOrSet(t) ==
    /\ pc[t] = "SyncGetOrSet"
    /\ IF Has(syncMap, key[t])
       THEN /\ ret' = [ret EXCEPT ![t] = Result(syncMap[key[t]], TRUE)]
            /\ syncMap' = syncMap
       ELSE /\ ret' = [ret EXCEPT ![t] = Result(ZeroVal, FALSE)]
            /\ syncMap' = Store(syncMap, key[t], val[t])
    /\ Goto(t, "idle")
    /\ UNCHANGED <<SafeMapVars, frames>>

(* m.Range(f): the method calls itself, not m.p.Range; every call puts one *)
(* more frame on the stack until the runtime stops the program with a      *)
(* stack overflow.  f is never called.                                     *)
SyncRange(t) ==
    /\ pc[t] = "SyncRange"
    /\ IF frames[t] < MaxFrames
       THEN frames' = [frames EXCEPT ![t] = @ + 1] /\ pc' = pc
       ELSE frames' = frames /\ Goto(t, "fatal")
    /\ UNCHANGED <<SafeMapVars, ret, syncMap>>

(* ------------------------- the whole program -------------------------- *)
(* One step of thread t: a call, or the next step of its running method. *)
Step(t) ==
    \/ Invoke(t)
    \/ GetRLock(t) \/ GetRUnlock(t)
    \/ SetLock(t) \/ SetCount(t) \/ SetWrite(t) \/ SetUnlock(t)
    \/ DeleteLock(t) \/ DeleteRemove(t) \/ DeleteCount(t) \/ DeleteUnlock(t)
    \/ GetAndDeleteLock(t) \/ GetAndDeleteRemove(t) \/ GetAndDeleteCount(t)
    \/ GetAndDeleteUnlock(t)
    \/ GetOrSetLock(t) \/ GetOrSetWrite(t) \/ GetOrSetCount(t) \/ GetOrSetUnlock(t)
    \/ ClearLock(t) \/ ClearDelete(t) \/ ClearCount(t) \/ ClearUnlock(t)
    \/ MapLen(t) \/ IsEmpty(t)
    \/ RangeLock(t) \/ RangeVisit(t) \/ RangeUnlock(t)

Next == \E t \in Threads : Step(t)

Spec == Init /\ [][Next]_vars

(* The calls as far as locking goes: one value stands for all, and the     *)
(* visitor of Range runs to the end or stops at its first visit.           *)
LockCalls == {c \in AllCalls : c.val \in {ZeroVal, 1}}

(* A map with any keys stored; every caller makes one call, any call. *)
InitFair ==
    /\ \E h \in [Keys -> Digests], S \in SUBSET Keys : NewMap(h, [k \in S |-> 1])
    /\ NoCalls([t \in Threads |-> IF t <= NumCallers THEN <<AnyOf(LockCalls)>> ELSE <<>>])

(* The Go scheduler: a goroutine that can take a step (it is runnable, or  *)
(* the mutex it waits for stays free) is eventually run.                   *)
FairSpec == InitFair /\ [][Next]_vars /\ \A t \in Threads : WF_vars(Step(t))

(* ====================================================================== *)
(* Concurrent GetOrSet on one key that is not stored                      *)
(* ====================================================================== *)
(* A map with any content that lacks key k; n >= 2 goroutines each call    *)
(* GetOrSet(k, v) with a value of their own choice, and nothing else runs. *)
InitGetOrSet ==
    \E h \in [Keys -> Digests], c \in Contents, k \in Keys,
       n \in 2..NumThreads, vs \in [Threads -> Vals] :
        /\ k \notin DOMAIN c
        /\ NewMap(h, c)
        /\ NoCalls([t \in Threads |->
                      IF t <= n THEN <<Call("GetOrSet", k, vs[t])>> ELSE <<>>])

NextGetOrSet ==
    \E t \in Threads :
        \/ Invoke(t)
        \/ GetOrSetLock(t) \/ GetOrSetWrite(t) \/ GetOrSetCount(t) \/ GetOrSetUnlock(t)

SpecGetOrSet == InitGetOrSet /\ [][NextGetOrSet]_vars

(* The threads that were given calls to make. *)
Callers == {t \in Threads : plan[t] # <<>>}

(* C1: N >= 2 concurrent GetOrSet(k, v_i) on an absent key k: the calls    *)
(* that have returned all returned the same value and at most one of them  *)
(* loaded == false; once all have returned exactly one call w returned     *)
(* (v_w, false), every other call returned (v_w, true), the table holds    *)
(* k -> v_w, and the counter has grown by exactly 1.                       *)
C1_GetOrSetOneWinner ==
    /\ \A t, u \in Callers :
          (Finished(t) /\ Finished(u) /\ t # u) =>
              (ret[t].val = ret[u].val /\ (ret[t].ok \/ ret[u].ok))
    /\ Done =>
          \E w \in Callers :
              LET k == plan[w][1].key
                  v == plan[w][1].val
              IN /\ ret[w] = Result(v, FALSE)
                 /\ \A t \in Callers \ {w} : ret[t] = Result(v, TRUE)
                 /\ Has(innerMap[hashIndex(k)], k)
                 /\ innerMap[hashIndex(k)][k] = v
                 /\ count = setup.count + 1
                 /\ TotalEntries = setup.count + 1

(* All of three callers have returned; one that offered another value got  *)
(* the winner's value back, with loaded == true.                           *)
C1_Witness ==
    /\ Done
    /\ Cardinality(Callers) = 3
    /\ \E t \in Callers : ret[t].ok /\ ret[t].val # plan[t][1].val

(* ====================================================================== *)
(* Concurrent Set on M keys (TestCSMapLen)                                *)
(* ====================================================================== *)
(* key := strconv.Itoa(n % M) of goroutine number n (thread t is n = t-1). *)
KeyOf(t, m) == ((t - 1) % m) + 1

(* A new map; goroutine t of n calls Set(KeyOf(t, m), t), for any n and    *)
(* any number m of distinct keys.                                          *)
InitSetLen ==
    \E h \in [Keys -> Digests], n \in 1..NumThreads, m \in 1..NumKeys :
        /\ NewMap(h, EmptyMap)
        /\ NoCalls([t \in Threads |->
                      IF t <= n THEN <<Call("Set", KeyOf(t, m), t)>> ELSE <<>>])

NextSetLen ==
    \E t \in Threads :
        \/ Invoke(t)
        \/ SetLock(t) \/ SetCount(t) \/ SetWrite(t) \/ SetUnlock(t)

SpecSetLen == InitSetLen /\ [][NextSetLen]_vars

Min(a, b) == IF a <= b THEN a ELSE b

(* The keys the started goroutines were given. *)
PlannedKeys == {plan[t][1].key : t \in Callers}

(* C2: after N concurrent Set calls on keys i mod M have all returned,     *)
(* Len() == min(N, M): the number of distinct keys the N calls used.       *)
C2_SetLenIsMin ==
    Done =>
        /\ \E m \in 1..NumKeys :
              /\ \A t \in Callers : plan[t][1].key = KeyOf(t, m)
              /\ count = Min(Cardinality(Callers), m)
        /\ count = Cardinality(PlannedKeys)

(* Three Sets on two keys that sit in different buckets have returned. *)
C2_Witness ==
    /\ Done
    /\ Cardinality(Callers) = 3
    /\ Cardinality(PlannedKeys) = 2
    /\ \E k1, k2 \in PlannedKeys : hashIndex(k1) # hashIndex(k2)

(* ====================================================================== *)
(* The counter and the bucket tables                                      *)
(* ====================================================================== *)
(* C3: whenever no thread is inside an operation, the counter Len() reads  *)
(* equals the sum of the sizes of all bucket tables.                       *)
C3_QuiescentCountIsTotal ==
    Quiescent => (count = TotalEntries /\ \A b \in Buckets : CanLock(b))

(* Every call has returned, the last of them a GetAndDelete that found its *)
(* key, and an entry is still stored.                                      *)
C3_Witness ==
    /\ Done
    /\ count = 1
    /\ \E t \in Callers : ret[t].ok /\ ret[t].val # ZeroVal /\ ~Has(Content, key[t])

(* Entries whose change of the counter is still to come, or has come       *)
(* early, in a call that holds the bucket's lock: a Set that has counted   *)
(* its new key and not yet written it, a Delete or GetAndDelete that has   *)
(* removed its key and not yet counted, and what a Clear has removed from  *)
(* its bucket and not yet subtracted.                                      *)
Uncounted(t) ==
    CASE pc[t] = "SetWrite" /\ ~Has(innerMap[index[t]], key[t]) -> 1
      [] pc[t] \in {"DeleteCount", "GetAndDeleteCount"} -> 1
      [] pc[t] \in {"ClearDelete", "ClearCount"} ->
            bucketLen[t] - Cardinality(DOMAIN innerMap[ClearBucket(t)])
      [] OTHER -> 0

RECURSIVE SumUncounted(_)
SumUncounted(ts) ==
    IF ts = {} THEN 0
    ELSE LET t == CHOOSE x \in ts : TRUE
         IN Uncounted(t) + SumUncounted(ts \ {t})

(* The entries a GetOrSet has stored and not yet counted. *)
Unadded == Cardinality({t \in Threads : pc[t] = "GetOrSetCount"})

(* C4 as stated: at every instant 0 <= size <= the number of entries       *)
(* physically stored in all bucket tables.                                 *)
C4_Original == count >= 0 /\ count <= TotalEntries

(* C4 as amended: at every instant size >= 0, and size exceeds the number  *)
(* of stored entries by no more than the entries of calls that hold their  *)
(* bucket's lock between the counter update and the table update; exactly, *)
(* size = stored + uncounted - (stored by a GetOrSet, not yet counted).    *)
C4_CountWithinPending ==
    /\ count >= 0
    /\ count <= TotalEntries + SumUncounted(Threads)
    /\ count = TotalEntries + SumUncounted(Threads) - Unadded

(* A Set has incremented the counter for a key it has not written yet:     *)
(* the counter is ahead of the tables.                                     *)
C4_Witness ==
    \E t \in Threads :
        /\ pc[t] = "SetWrite"
        /\ ~Has(innerMap[index[t]], key[t])
        /\ count = TotalEntries + 1

(* ====================================================================== *)
(* Clear beside an observer and a writer                                  *)
(* ====================================================================== *)
(* The calls that can change a bucket table for a key. *)
WriterCalls ==
    {Call(o, k, ZeroVal) : o \in {"Delete", "GetAndDelete"}, k \in Keys}
    \cup {Call(o, k, v) : o \in KeyValOps, k \in Keys, v \in Vals}

(* A map with any content.  Thread 1 calls Clear, thread 2 calls Len or    *)
(* IsEmpty, and thread 3, when it runs at all, makes one writing call.     *)
InitClear ==
    \E h \in [Keys -> Digests], c \in Contents, o \in {"Len", "IsEmpty"},
       w \in {<<>>} \cup {<<x>> : x \in WriterCalls} :
        /\ NewMap(h, c)
        /\ NoCalls([t \in Threads |->
                      CASE t = 1 -> <<Call("Clear", 1, ZeroVal)>>
                        [] t = 2 -> <<Call(o, 1, ZeroVal)>>
                        [] t = 3 -> w
                        [] OTHER -> <<>>])

NextClear ==
    \E t \in Threads :
        \/ Invoke(t)
        \/ ClearLock(t) \/ ClearDelete(t) \/ ClearCount(t) \/ ClearUnlock(t)
        \/ MapLen(t) \/ IsEmpty(t)
        \/ SetLock(t) \/ SetCount(t) \/ SetWrite(t) \/ SetUnlock(t)
        \/ DeleteLock(t) \/ DeleteRemove(t) \/ DeleteCount(t) \/ DeleteUnlock(t)
        \/ GetAndDeleteLock(t) \/ GetAndDeleteRemove(t) \/ GetAndDeleteCount(t)
        \/ GetAndDeleteUnlock(t)
        \/ GetOrSetLock(t) \/ GetOrSetWrite(t) \/ GetOrSetCount(t) \/ GetOrSetUnlock(t)

SpecClear == InitClear /\ [][NextClear]_vars

(* Some thread is inside Clear. *)
ClearExecuting ==
    \E t \in Threads : pc[t] \in {"ClearLock", "ClearDelete", "ClearCount", "ClearUnlock"}

(* Thread o is about to load the counter: what it reads is count now. *)
Observing(o) == pc[o] \in {"Len", "IsEmpty"}

(* C5 as stated: while a Clear is executing, an observer never reads       *)
(* size == 0 when some bucket still holds entries, and never reads a       *)
(* non-zero size when every bucket is already empty.                       *)
C5_Original ==
    \A o \in Threads :
        (Observing(o) /\ ClearExecuting) =>
            /\ (count = 0 => TotalEntries = 0)
            /\ (TotalEntries = 0 => count = 0)

(* C5 as amended: while a Clear is executing, an observer reads size == 0  *)
(* with a bucket still holding entries only when those are entries a       *)
(* GetOrSet has stored and not yet counted; and it reads a non-zero size   *)
(* with every bucket empty only while calls holding a bucket lock have     *)
(* their counter update pending, the size read being exactly the pending   *)
(* number (for Clear: what it deleted from the bucket and has not yet      *)
(* subtracted).                                                            *)
C5_ClearObserved ==
    \A o \in Threads :
        (Observing(o) /\ ClearExecuting) =>
            /\ (count = 0 => TotalEntries = Unadded)
            /\ (TotalEntries = 0 => count = SumUncounted(Threads))

(* Clear has emptied the last bucket and not yet subtracted its length: an *)
(* observer about to read finds a non-zero size and no entry anywhere, and *)
(* no other call is in flight.                                             *)
C5_Witness ==
    \E o \in Threads, t \in Threads :
        /\ Observing(o)
        /\ pc[t] = "ClearCount"
        /\ \A u \in Threads \ {o, t} : Idle(u)
        /\ TotalEntries = 0
        /\ count = 2

(* ====================================================================== *)
(* Clear beside two Sets of one thread                                    *)
(* ====================================================================== *)
(* A map with any content.  Thread 1 calls Clear; thread 2 calls           *)
(* Set(a, x) and, when that has returned, Set(b, y), for two keys a # b.   *)
InitClearSets ==
    \E h \in [Keys -> Digests], c \in Contents, a \in Keys, b \in Keys,
       x \in Vals, y \in Vals :
        /\ a # b
        /\ NewMap(h, c)
        /\ NoCalls([t \in Threads |->
                      CASE t = 1 -> <<Call("Clear", 1, ZeroVal)>>
                        [] t = 2 -> <<Call("Set", a, x), Call("Set", b, y)>>
                        [] OTHER -> <<>>])

NextClearSets ==
    \E t \in Threads :
        \/ Invoke(t)
        \/ ClearLock(t) \/ ClearDelete(t) \/ ClearCount(t) \/ ClearUnlock(t)
        \/ SetLock(t) \/ SetCount(t) \/ SetWrite(t) \/ SetUnlock(t)

SpecClearSets == InitClearSets /\ [][NextClearSets]_vars

(* The keys of thread 2's first and second Set. *)
KeyA == plan[2][1].key

KeyB == plan[2][2].key

(* The final state the claim rules out: a is stored and b is not. *)
FirstKeptSecondLost == Done /\ Has(Content, KeyA) /\ ~Has(Content, KeyB)

PairsOf(seq) == {seq[n] : n \in 1..Len(seq)}

(* The (key, value) pairs the whole map holds. *)
ContentPairs == {<<k, Content[k]>> : k \in DOMAIN Content}

(* Range has called the visitor at least once and has not returned. *)
RangeVisiting(t) == pc[t] \in {"RangeVisit", "RangeUnlock"} /\ Len(visited[t]) >= 1

(* Range, with a visitor that always returns true, ends its last loop. *)
RangeVisitedAll(t) == pc[t] = "RangeVisit" /\ pc'[t] = "RangeUnlock" /\ val[t] = 0

(* C7 as stated: from Range's first call of the visitor until Range        *)
(* returns no step changes any bucket table, and with an always-true       *)
(* visitor the pairs visited are the whole map's content at one instant.   *)
C7_Original ==
    [][ /\ (\E t \in Threads : RangeVisiting(t)) => innerMap' = innerMap
        /\ \A t \in Threads : RangeVisitedAll(t) => PairsOf(visited'[t]) = ContentPairs
      ]_vars

(* C7 as amended: from the moment Range holds every bucket's lock (before  *)
(* its first call of the visitor) until its last loop turn, when it starts *)
(* to release the locks, no step changes any bucket table; while allUnlock *)
(* runs, before Range returns, buckets already unlocked can change.  With  *)
(* an always-true visitor the pairs visited are the whole map's content at *)
(* the instant the loops end.                                              *)
C7_RangeFrozen ==
    [][ /\ (\E t \in Threads : pc[t] = "RangeVisit") => innerMap' = innerMap
        /\ \A t \in Threads : RangeVisitedAll(t) => PairsOf(visited'[t]) = ContentPairs
      ]_vars

(* Range has visited two entries with an always-true visitor and is        *)
(* releasing the locks while another thread's call waits for a bucket.     *)
C7_Witness ==
    \E t \in Threads, u \in Threads :
        /\ pc[t] = "RangeUnlock"
        /\ val[t] = 0
        /\ Len(visited[t]) = 2
        /\ PairsOf(visited[t]) = ContentPairs
        /\ pc[u] \in {"SetLock", "DeleteLock", "GetAndDeleteLock", "GetOrSetLock", "ClearLock"}

(* ====================================================================== *)
(* Deadlock freedom and termination                                       *)
(* ====================================================================== *)
(* C8: with any mix of Get, Set, Delete, GetAndDelete, GetOrSet, Clear,    *)
(* Len, IsEmpty and Range (visitors that do not call the map) no deadlock  *)
(* state is reachable - some thread can step unless every call has         *)
(* returned - and under fair scheduling every started operation returns.   *)
C8_NoDeadlockAllReturn ==
    /\ [](Done \/ ENABLED Next)
    /\ \A t \in Threads : (pc[t] # "idle") ~> (pc[t] = "idle")

(* A Range that holds bucket 0 waits for bucket 1, which a Clear holds,    *)
(* while bucket 0 is wanted by nobody who holds bucket 1.                  *)
C8_Witness ==
    \E t \in Threads, u \in Threads :
        /\ pc[t] = "RangeLock"
        /\ i[t] = 1
        /\ writer[0] = t
        /\ writer[1] = u
        /\ pc[u] \in {"ClearDelete", "ClearCount", "ClearUnlock"}

(* ====================================================================== *)
(* Concurrent GetAndDelete on one stored key                              *)
(* ====================================================================== *)
(* A map with any content that holds key k; n >= 1 goroutines each call    *)
(* GetAndDelete(k), the others each call Get(k), and nobody stores k.      *)
InitGetAndDelete ==
    \E h \in [Keys -> Digests], c \in Contents, k \in Keys, n \in 1..NumThreads :
        /\ k \in DOMAIN c
        /\ NewMap(h, c)
        /\ NoCalls([t \in Threads |->
                      IF t <= n THEN <<Call("GetAndDelete", k, ZeroVal)>>
                                ELSE <<Call("Get", k, ZeroVal)>>])

NextGetAndDelete ==
    \E t \in Threads :
        \/ Invoke(t)
        \/ GetAndDeleteLock(t) \/ GetAndDeleteRemove(t) \/ GetAndDeleteCount(t)
        \/ GetAndDeleteUnlock(t)
        \/ GetRLock(t) \/ GetRUnlock(t)

SpecGetAndDelete == InitGetAndDelete /\ [][NextGetAndDelete]_vars

(* The threads whose call is GetAndDelete. *)
Deleters == {t \in Threads : plan[t] # <<>> /\ plan[t][1].op = "GetAndDelete"}

(* A GetAndDelete has returned loaded == true. *)
LoadedReturned == \E u \in Deleters : Finished(u) /\ ret[u].ok

(* C9: key k is stored and nobody re-inserts it.  Of the concurrent        *)
(* GetAndDelete(k) calls that have returned at most one returned loaded == *)
(* true, and it returned the stored value; the others returned (zero,      *)
(* false).  Once all calls have returned exactly one GetAndDelete has      *)
(* loaded == true, k is gone and the counter is smaller by exactly 1.      *)
(* A Get(k) that reads after the successful GetAndDelete has returned (as  *)
(* every Get that starts after it does) yields (zero, false).              *)
C9_GetAndDeleteOnce ==
    /\ [](\A t \in Deleters :
             Finished(t) =>
                 /\ ret[t] \in {Result(setup.content[key[t]], TRUE), Result(ZeroVal, FALSE)}
                 /\ \A u \in Deleters \ {t} : Finished(u) => ~(ret[t].ok /\ ret[u].ok))
    /\ [](Done =>
             /\ Cardinality({t \in Deleters : ret[t].ok}) = 1
             /\ \A b \in Buckets : \A t \in Deleters : ~Has(innerMap[b], key[t])
             /\ count = setup.count - 1
             /\ TotalEntries = setup.count - 1)
    /\ [][\A t \in Threads :
             (LoadedReturned /\ pc[t] = "GetRLock" /\ pc'[t] = "GetRUnlock")
                 => ret'[t] = Result(ZeroVal, FALSE)]_vars

(* Two GetAndDelete calls have returned, one with the stored value and one *)
(* with (zero, false), and a Get that read afterwards found nothing.       *)
C9_Witness ==
    \E t \in Deleters, u \in Deleters, g \in Threads \ Deleters :
        /\ Done
        /\ ret[t] = Result(setup.content[key[t]], TRUE)
        /\ setup.content[key[t]] # ZeroVal
        /\ ret[u] = Result(ZeroVal, FALSE)
        /\ ret[g] = Result(ZeroVal, FALSE)

(* ====================================================================== *)
(* Set followed by Get on shared keys (TestConcurrentOperations)          *)
(* ====================================================================== *)
(* A new map; goroutine number n = t - 1 of the test calls m.Set(key, n)   *)
(* and then m.Get(key) with key := strconv.Itoa(n % M), for any number of  *)
(* goroutines and any number M of distinct keys.                           *)
InitSetGet ==
    \E h \in [Keys -> Digests], n \in 2..NumThreads, m \in 1..NumKeys :
        /\ NewMap(h, EmptyMap)
        /\ NoCalls([t \in Threads |->
                      IF t <= n THEN <<Call("Set", KeyOf(t, m), t - 1),
                                       Call("Get", KeyOf(t, m), ZeroVal)>>
                                ELSE <<>>])

NextSetGet ==
    \E t \in Threads :
        \/ Invoke(t)
        \/ SetLock(t) \/ SetCount(t) \/ SetWrite(t) \/ SetUnlock(t)
        \/ GetRLock(t) \/ GetRUnlock(t)

SpecSetGet == InitSetGet /\ [][NextSetGet]_vars

(* C10: every goroutine's Get returns (n, true) with the value n that the  *)
(* goroutine has just written with Set, also when several goroutines share *)
(* the key and write different values.                                     *)
C10_GetReturnsOwnValue ==
    \A t \in Callers : Finished(t) => ret[t] = Result(plan[t][1].val, TRUE)

(* ====================================================================== *)
(* Range with no writer running (TestRange)                               *)
(* ====================================================================== *)
(* The calls that write nothing. *)
ReadCalls == {c \in AllCalls : c.op \in {"Get", "Len", "IsEmpty", "Range"}}

(* A map with any content; thread 1 calls Range with any visitor, and the  *)
(* other threads each make one call that writes nothing, or no call.       *)
InitRange ==
    \E h \in [Keys -> Digests], c \in Contents, j \in 0..NumKeys, n \in 1..NumThreads :
      \E cs \in [2..n -> ReadCalls] :
        /\ NewMap(h, c)
        /\ NoCalls([t \in Threads |->
                      IF t = 1 THEN <<Call("Range", 1, j)>>
                      ELSE IF t <= n THEN <<cs[t]>> ELSE <<>>])

NextRange ==
    \E t \in Threads :
        \/ Invoke(t)
        \/ RangeLock(t) \/ RangeVisit(t) \/ RangeUnlock(t)
        \/ GetRLock(t) \/ GetRUnlock(t) \/ MapLen(t) \/ IsEmpty(t)

SpecRange == InitRange /\ [][NextRange]_vars

(* The threads whose call is Range. *)
Rangers == {t \in Threads : plan[t] # <<>> /\ plan[t][1].op = "Range"}

(* The keys in a sequence of visits, one per visit. *)
VisitedKeys(seq) == {seq[n][1] : n \in 1..Len(seq)}

(* C11: with no writer running, Range never calls the visitor for          *)
(* anything but a stored key with its current value, and never twice for   *)
(* one key.  When Range has returned: a visitor that is always true was    *)
(* called exactly once for every stored key and for nothing else; a        *)
(* visitor that is false at its j-th call, 1 <= j <= n, was called exactly *)
(* j times.                                                                *)
C11_RangeVisitsEach ==
    \A t \in Rangers :
        /\ PairsOf(visited[t]) \subseteq ContentPairs
        /\ Cardinality(VisitedKeys(visited[t])) = Len(visited[t])
        /\ Finished(t) =>
              LET j == plan[t][1].val
                  n == setup.count
              IN /\ j = 0 => /\ Len(visited[t]) = n
                             /\ PairsOf(visited[t]) = ContentPairs
                 /\ (1 <= j /\ j <= n) => Len(visited[t]) = j

(* A Range over two entries in two buckets whose visitor was false at its  *)
(* first call has returned after that one call, while another Range has    *)
(* returned after it visited both entries.                                 *)
C11_Witness ==
    \E t \in Rangers, u \in Rangers :
        /\ Finished(t) /\ Finished(u)
        /\ setup.count = 2
        /\ \A b \in Buckets : DOMAIN innerMap[b] # {}
        /\ plan[t][1].val = 1 /\ Len(visited[t]) = 1
        /\ plan[u][1].val = 0 /\ Len(visited[u]) = 2

(* ====================================================================== *)
(* Len and IsEmpty beside a Range or a Clear                              *)
(* ====================================================================== *)
(* A map with any content; thread 1 calls Range or Clear, and each other   *)
(* thread calls Len or IsEmpty.                                            *)
InitLenLocked ==
    \E h \in [Keys -> Digests], c \in Contents,
       w \in {x \in AllCalls : x.op \in {"Range", "Clear"}},
       os \in [Threads -> {Call("Len", 1, ZeroVal), Call("IsEmpty", 1, ZeroVal)}] :
        /\ NewMap(h, c)
        /\ NoCalls([t \in Threads |-> IF t = 1 THEN <<w>> ELSE <<os[t]>>])

NextLenLocked ==
    \E t \in Threads :
        \/ Invoke(t)
        \/ RangeLock(t) \/ RangeVisit(t) \/ RangeUnlock(t)
        \/ ClearLock(t) \/ ClearDelete(t) \/ ClearCount(t) \/ ClearUnlock(t)
        \/ MapLen(t) \/ IsEmpty(t)

SpecLenLocked == InitLenLocked /\ [][NextLenLocked]_vars

(* Thread u holds the exclusive lock of every bucket. *)
HoldsAll(u) == \A b \in Buckets : writer[b] = u

(* Thread t has started Len or IsEmpty and has not returned. *)
InLen(t) == pc[t] \in {"Len", "IsEmpty"}

(* C12: a started Len or IsEmpty can always take its step, whatever locks  *)
(* other threads hold (every bucket's lock in the middle of a Range, a     *)
(* bucket's lock in the middle of a Clear); the step returns, and it       *)
(* neither takes nor releases any lock.                                    *)
C12_LenTakesNoLock ==
    /\ [](\A t \in Threads : InLen(t) => ENABLED (MapLen(t) \/ IsEmpty(t)))
    /\ [][\A t \in Threads :
             (InLen(t) /\ pc'[t] # pc[t]) =>
                 /\ pc'[t] = "idle"
                 /\ ret'[t] \in {Result(count, TRUE), Result(ZeroVal, count = 0)}
                 /\ writer' = writer
                 /\ readers' = readers]_vars

(* A Range in the middle of its visits holds every bucket's lock; one      *)
(* thread has returned from Len with the counter's value and another has   *)
(* started IsEmpty.                                                        *)
C12_Witness ==
    \E u \in Threads, t \in Threads, w \in Threads :
        /\ pc[u] = "RangeVisit" /\ Len(visited[u]) = 1 /\ HoldsAll(u)
        /\ plan[t][1].op = "Len" /\ Finished(t) /\ ret[t] = Result(count, TRUE)
        /\ count = 2
        /\ pc[w] = "IsEmpty"

(* ====================================================================== *)
(* After Clear (TestClear, TestSafeMapLen)                                *)
(* ====================================================================== *)
(* What a caller looks at after its Clear: Len, IsEmpty, Get of any key,   *)
(* or a Range with an always-true visitor.                                 *)
AfterCalls ==
    {Call("Len", 1, ZeroVal), Call("IsEmpty", 1, ZeroVal), Call("Range", 1, 0)}
    \cup {Call("Get", k, ZeroVal) : k \in Keys}

(* A map with any content; n >= 1 goroutines each call Clear, and the      *)
(* first then makes one of the calls above; no writer runs.                *)
InitClearThen ==
    \E h \in [Keys -> Digests], c \in Contents, n \in 1..NumThreads, a \in AfterCalls :
        /\ NewMap(h, c)
        /\ NoCalls([t \in Threads |->
                      IF t = 1 THEN <<Call("Clear", 1, ZeroVal), a>>
                      ELSE IF t <= n THEN <<Call("Clear", 1, ZeroVal)>> ELSE <<>>])

NextClearThen ==
    \E t \in Threads :
        \/ Invoke(t)
        \/ ClearLock(t) \/ ClearDelete(t) \/ ClearCount(t) \/ ClearUnlock(t)
        \/ MapLen(t) \/ IsEmpty(t) \/ GetRLock(t) \/ GetRUnlock(t)
        \/ RangeLock(t) \/ RangeVisit(t) \/ RangeUnlock(t)

SpecClearThen == InitClearThen /\ [][NextClearThen]_vars

(* The Clear of thread t has returned. *)
ClearReturned(t) ==
    /\ plan[t] # <<>>
    /\ \/ Len(prog[t]) = Len(plan[t]) - 1 /\ Idle(t)
       \/ Len(prog[t]) < Len(plan[t]) - 1

(* What the call c made on an empty map returns or visits. *)
OnEmpty(t, c) ==
    /\ c.op = "Len" => ret[t] = Result(0, TRUE)
    /\ c.op = "IsEmpty" => ret[t] = Result(ZeroVal, TRUE)
    /\ c.op = "Get" => ret[t] = Result(ZeroVal, FALSE)
    /\ c.op = "Range" => visited[t] = <<>>

(* C13: once a Clear has returned, with no writer running (other Clear     *)
(* calls may still run), the counter is 0 and every table is empty; the    *)
(* caller's next Len returns 0, IsEmpty true, Get of any key (zero,        *)
(* false), and Range calls its visitor zero times.                         *)
C13_AfterClearEmpty ==
    \A t \in Threads :
        /\ ClearReturned(t) => (count = 0 /\ TotalEntries = 0)
        /\ (Len(plan[t]) = 2 /\ Finished(t)) => OnEmpty(t, plan[t][2])

(* The map held two entries; the Clear of one thread has returned while    *)
(* another thread's Clear is still in its loop, and the first thread's     *)
(* Get of a key that was stored has returned (zero, false).                *)
C13_Witness ==
    \E t \in Threads, u \in Threads :
        /\ setup.count = 2
        /\ Len(plan[t]) = 2 /\ Finished(t)
        /\ plan[t][2].op = "Get"
        /\ ret[t] = Result(ZeroVal, FALSE)
        /\ pc[u] \in {"ClearLock", "ClearCount", "ClearUnlock"}

(* ====================================================================== *)
(* New with any options (TestNewMap)                                      *)
(* ====================================================================== *)
(* Every list of at most n OptFuncs. *)
OptLists(n) == UNION {[1..m -> OptFuncs] : m \in 0..n}

(* New is called with any list of options, in a build of either width of  *)
(* int; there is no map yet and no goroutine uses one.                     *)
InitNew ==
    /\ options \in OptLists(MaxOpts)
    /\ intBits \in IntWidths
    /\ opt = ZeroOptions
    /\ newI = 1
    /\ newPc = "loadOpts"
    /\ newRet = NoMapYet
    /\ syncMap = EmptyMap
    /\ hashFunc = [k \in Keys |-> 0]
    /\ innerMap = [b \in Buckets |-> EmptyMap]
    /\ count = 0
    /\ writer = [b \in Buckets |-> NoThread]
    /\ readers = [b \in Buckets |-> {}]
    /\ setup = [content |-> EmptyMap, count |-> 0]
    /\ NoCalls([t \in Threads |-> <<>>])

NextNew == LoadOpt \/ LoadOptsReturn \/ NewMake

SpecNew == InitNew /\ [][NextNew]_vars

(* Some option of the list sets the hash function. *)
SetsHashFunc == \E n \in 1..Len(options) : options[n].name = "WithHashFunc"

(* The call of New is over. *)
NewOver == newPc \in {"returned", "panicked"}

(* C14: New returns nil and ErrMissingHashFunc whenever no option sets a   *)
(* hash function, whatever other options there are, and a map and a nil    *)
(* error whenever some option sets one.                                    *)
C14_HashFuncDecides ==
    NewOver =>
        newRet = IF SetsHashFunc THEN [m |-> "safeMap", err |-> "nil"]
                 ELSE [m |-> "nil", err |-> "ErrMissingHashFunc"]

(* The bucket options of the list, and the mask of the last of them. *)
BucketOpts == {n \in 1..Len(options) : options[n].name = "WithBuckets"}

LastMask == options[CHOOSE n \in BucketOpts : \A m \in BucketOpts : m <= n].mask

(* loadOpts has resolved the bucket count. *)
Resolved == newPc \in {"make", "returned", "panicked"}

(* C15: for every mask in 0..255 given to WithBuckets the bucket count     *)
(* resolved is a power of two in [1, max]: 1 << mask when that is at most  *)
(* the maximum 1 << 8, and the maximum when 1 << mask exceeds it; it is    *)
(* the default 32 when there is no bucket option; New never panics.        *)
C15_BucketCountClamped ==
    /\ newPc # "panicked"
    /\ Resolved =>
          /\ opt.bucketTotal.sgn = 1
          /\ opt.bucketTotal.exp <= maxBucketCount.exp
          /\ opt.bucketTotal =
                IF BucketOpts = {} THEN defaultBucketCount
                ELSE IF LastMask <= maxBucketCount.exp THEN Pow2(LastMask)
                ELSE maxBucketCount

(* ====================================================================== *)
(* Sequences of calls by one goroutine (TestRwLock_Set)                   *)
(* ====================================================================== *)
(* Every sequence of exactly n calls. *)
CallSeqs(n) == [1..n -> AllCalls]

(* A new map; one goroutine makes MaxSeq calls, any calls, one after the   *)
(* other.                                                                  *)
InitSeq ==
    \E h \in [Keys -> Digests], p \in CallSeqs(MaxSeq) :
        /\ NewMap(h, EmptyMap)
        /\ NoCalls([t \in Threads |-> IF t = 1 THEN p ELSE <<>>])

SpecSeq == InitSeq /\ [][Next]_vars

(* The number of calls thread t has made so far. *)
Made(t) == Len(plan[t]) - Len(prog[t])

(* Call number j of thread t has just returned. *)
Returned(t, j) == Idle(t) /\ Made(t) = j

(* The call c takes key k out of the map or gives it a new value. *)
Rewrites(c, k) ==
    \/ c.op \in {"Set", "Delete", "GetAndDelete"} /\ c.key = k
    \/ c.op = "Clear"

(* The Set calls on key k before call j of thread t that no later call     *)
(* before j rewrites: the latest Set of k, if nothing removed k after it.  *)
StandingSets(t, j, k) ==
    {n \in 1..(j - 1) :
        /\ plan[t][n].op = "Set"
        /\ plan[t][n].key = k
        /\ \A m \in (n + 1)..(j - 1) : ~Rewrites(plan[t][m], k)}

(* C16: a Get(k) that follows a Set(k, v), with no Set, Delete or          *)
(* GetAndDelete of k and no Clear in between, returns (v, true); after     *)
(* several Sets of k that is the value of the latest Set.                  *)
C16_GetAfterSet ==
    \A t \in Threads : \A j \in 1..Len(plan[t]) :
        (Returned(t, j) /\ plan[t][j].op = "Get") =>
            \A n \in StandingSets(t, j, plan[t][j].key) :
                ret[t] = Result(plan[t][n].val, TRUE)

(* Set(k, v), Set(k, w) with another value, then Get(k) has returned       *)
(* (w, true).                                                              *)
C16_Witness ==
    \E t \in Threads :
        /\ Returned(t, 3)
        /\ plan[t][1].op = "Set" /\ plan[t][2].op = "Set" /\ plan[t][3].op = "Get"
        /\ plan[t][1].key = plan[t][3].key /\ plan[t][2].key = plan[t][3].key
        /\ plan[t][1].val # plan[t][2].val
        /\ ret[t] = Result(plan[t][2].val, TRUE)

(* ====================================================================== *)
(* One call on any map, and a Get after it                                *)
(* ====================================================================== *)
(* A map with any content; one goroutine makes one call, any call, and     *)
(* then a Get of any key.                                                  *)
InitCall ==
    \E h \in [Keys -> Digests], c \in Contents, x \in AllCalls, k \in Keys :
        /\ NewMap(h, c)
        /\ NoCalls([t \in Threads |->
                      IF t = 1 THEN <<x, Call("Get", k, ZeroVal)>> ELSE <<>>])

SpecCall == InitCall /\ [][Next]_vars

(* The first call of thread t is o(k, ...). *)
FirstIs(t, o) == plan[t] # <<>> /\ plan[t][1].op = o

(* The key of thread t's first call, and whether the map held it. *)
FirstKey(t) == plan[t][1].key

WasStored(t) == FirstKey(t) \in DOMAIN setup.content

(* The first call of thread t has returned. *)
FirstReturned(t) == plan[t] # <<>> /\ (Returned(t, 1) \/ Made(t) > 1)

(* The tables and the counter are as they were before the first call. *)
Untouched == Content = setup.content /\ count = setup.count

(* C17: Get(k) of a key that is not stored returns (zero, false), Get of a *)
(* stored key returns (its value, true), and at no point of either call    *)
(* does any bucket table or the counter change.                            *)
C17_GetChangesNothing ==
    \A t \in Threads :
        FirstIs(t, "Get") =>
            /\ Untouched
            /\ Returned(t, 1) =>
                  ret[t] = IF WasStored(t)
                           THEN Result(setup.content[FirstKey(t)], TRUE)
                           ELSE Result(ZeroVal, FALSE)

(* Get of a key the map does not hold, beside another key it holds, has    *)
(* returned (zero, false).                                                 *)
C17_Witness ==
    \E t \in Threads :
        /\ FirstIs(t, "Get") /\ Returned(t, 1)
        /\ ~WasStored(t)
        /\ setup.count = 1
        /\ ret[t] = Result(ZeroVal, FALSE)

(* C18: after Set(k, v) the map holds k -> v and every other entry as      *)
(* before; Len() is unchanged when k was stored and larger by exactly 1    *)
(* when it was not.                                                        *)
C18_SetStoresAndCounts ==
    \A t \in Threads :
        (FirstIs(t, "Set") /\ FirstReturned(t)) =>
            /\ Content = Store(setup.content, FirstKey(t), plan[t][1].val)
            /\ count = setup.count + (IF WasStored(t) THEN 0 ELSE 1)

(* Set(k, v) on a stored key with another value, beside a second entry,    *)
(* has returned: two entries as before, k with the new value.              *)
C18_Witness ==
    \E t \in Threads :
        /\ FirstIs(t, "Set") /\ Returned(t, 1)
        /\ WasStored(t)
        /\ setup.content[FirstKey(t)] # plan[t][1].val
        /\ Content[FirstKey(t)] = plan[t][1].val
        /\ setup.count = 2 /\ count = 2

(* C19: Delete(k) of a key that is not stored changes no table and not the *)
(* counter at any point, and returns; Delete(k) of a stored key leaves the *)
(* map without k, every other entry as before, and Len() smaller by        *)
(* exactly 1.                                                              *)
C19_DeleteRemovesOne ==
    \A t \in Threads :
        FirstIs(t, "Delete") =>
            /\ ~WasStored(t) => Untouched
            /\ FirstReturned(t) =>
                  /\ Content = Remove(setup.content, FirstKey(t))
                  /\ count = setup.count - (IF WasStored(t) THEN 1 ELSE 0)

(* Delete of one of two stored keys has returned: one entry is left, the   *)
(* other key's.                                                            *)
C19_Witness ==
    \E t \in Threads :
        /\ FirstIs(t, "Delete") /\ Returned(t, 1)
        /\ WasStored(t)
        /\ setup.count = 2 /\ count = 1
        /\ DOMAIN Content = DOMAIN setup.content \ {FirstKey(t)}

(* C20: GetAndDelete(k) of a stored key returns (its value, true) and the  *)
(* Get(k) after it returns (zero, false); GetAndDelete(k) of a key that is *)
(* not stored returns (zero, false) and changes no table and not the       *)
(* counter.                                                                *)
C20_GetAndDeleteThenGet ==
    \A t \in Threads :
        FirstIs(t, "GetAndDelete") =>
            /\ ~WasStored(t) => Untouched
            /\ Returned(t, 1) =>
                  ret[t] = IF WasStored(t)
                           THEN Result(setup.content[FirstKey(t)], TRUE)
                           ELSE Result(ZeroVal, FALSE)
            /\ (Returned(t, 2) /\ plan[t][2].key = FirstKey(t)) =>
                  ret[t] = Result(ZeroVal, FALSE)

(* GetAndDelete of a stored key, then Get of the same key, which has       *)
(* returned (zero, false), while the other entry is still there.           *)
C20_Witness ==
    \E t \in Threads :
        /\ FirstIs(t, "GetAndDelete") /\ Returned(t, 2)
        /\ WasStored(t)
        /\ plan[t][2].key = FirstKey(t)
        /\ ret[t] = Result(ZeroVal, FALSE)
        /\ setup.count = 2 /\ count = 1

(* C21: GetOrSet(k, v) of a key that is not stored returns (v, false) and  *)
(* leaves the map with k -> v, every other entry as before and Len()       *)
(* larger by 1; GetOrSet(k, v) of a stored key returns (the stored value,  *)
(* true) and changes no table and not the counter at any point.            *)
C21_GetOrSetLoadsOrStores ==
    \A t \in Threads :
        FirstIs(t, "GetOrSet") =>
            /\ WasStored(t) => Untouched
            /\ Returned(t, 1) =>
                  ret[t] = IF WasStored(t)
                           THEN Result(setup.content[FirstKey(t)], TRUE)
                           ELSE Result(plan[t][1].val, FALSE)
            /\ (FirstReturned(t) /\ ~WasStored(t)) =>
                  /\ Content = Store(setup.content, FirstKey(t), plan[t][1].val)
                  /\ count = setup.count + 1

(* GetOrSet(k, v) beside one other entry has stored k -> v and returned    *)
(* (v, false), and the Get(k) after it has returned (v, true).             *)
C21_Witness ==
    \E t \in Threads :
        /\ FirstIs(t, "GetOrSet") /\ Returned(t, 2)
        /\ ~WasStored(t)
        /\ plan[t][2].key = FirstKey(t)
        /\ ret[t] = Result(plan[t][1].val, TRUE)
        /\ setup.count = 1 /\ count = 2

(* ====================================================================== *)
(* GetAndDelete of the earlier version, then Cap / Len or IsEmpty         *)
(* ====================================================================== *)
(* A map of the earlier version with any content; one goroutine calls      *)
(* GetAndDelete of any key and then Cap (Len) or IsEmpty.                  *)
InitOldGetAndDelete ==
    \E h \in [Keys -> Digests], c \in Contents, k \in Keys,
       o \in {Call("Len", 1, ZeroVal), Call("IsEmpty", 1, ZeroVal)} :
        /\ NewMap(h, c)
        /\ NoCalls([t \in Threads |->
                      IF t = 1 THEN <<Call("OldGetAndDelete", k, ZeroVal), o>> ELSE <<>>])

NextOldGetAndDelete ==
    \E t \in Threads :
        \/ Invoke(t)
        \/ OldGetAndDeleteLock(t) \/ OldGetAndDeleteRemove(t) \/ OldGetAndDeleteUnlock(t)
        \/ MapLen(t) \/ IsEmpty(t)

SpecOldGetAndDelete == InitOldGetAndDelete /\ [][NextOldGetAndDelete]_vars

(* C22: GetAndDelete of a stored key takes exactly one off the element     *)
(* counter: the Cap() / Len() after it is one less than before, and        *)
(* IsEmpty() is true once GetAndDelete has removed the last stored key.    *)
C22_GetAndDeleteCounts ==
    \A t \in Threads :
        (FirstIs(t, "OldGetAndDelete") /\ WasStored(t)) =>
            /\ FirstReturned(t) => count = setup.count - 1
            /\ (Returned(t, 2) /\ plan[t][2].op = "Len") =>
                  ret[t] = Result(setup.count - 1, TRUE)
            /\ (Returned(t, 2) /\ plan[t][2].op = "IsEmpty" /\ setup.count = 1) =>
                  ret[t] = Result(ZeroVal, TRUE)

(* C23: after any sequential history of calls IsEmpty() returns true       *)
(* exactly when no key is stored in any bucket.                            *)
C23_IsEmptyIffNoKey ==
    \A t \in Threads : \A j \in 1..Len(plan[t]) :
        (Returned(t, j) /\ plan[t][j].op = "IsEmpty") =>
            ret[t] = Result(ZeroVal, TotalEntries = 0)

(* Set(k, v), GetAndDelete(k), IsEmpty() on a new map: IsEmpty has         *)
(* returned true again.                                                    *)
C23_Witness ==
    \E t \in Threads :
        /\ Returned(t, 3)
        /\ plan[t][1].op = "Set" /\ plan[t][2].op = "GetAndDelete"
        /\ plan[t][1].key = plan[t][2].key
        /\ plan[t][3].op = "IsEmpty"
        /\ ret[t] = Result(ZeroVal, TRUE)

(* ====================================================================== *)
(* Clear twice                                                            *)
(* ====================================================================== *)
(* A map with any content, the empty one included; one goroutine calls     *)
(* Clear and then Clear again.                                             *)
InitClearTwice ==
    \E h \in [Keys -> Digests], c \in Contents :
        /\ NewMap(h, c)
        /\ NoCalls([t \in Threads |->
                      IF t = 1 THEN <<Call("Clear", 1, ZeroVal), Call("Clear", 1, ZeroVal)>>
                      ELSE <<>>])

NextClearTwice ==
    \E t \in Threads :
        \/ Invoke(t)
        \/ ClearLock(t) \/ ClearDelete(t) \/ ClearCount(t) \/ ClearUnlock(t)

SpecClearTwice == InitClearTwice /\ [][NextClearTwice]_vars

(* Every bucket table is empty and the counter is 0. *)
AllEmpty == count = 0 /\ \A b \in Buckets : innerMap[b] = EmptyMap

(* Every bucket's mutex is free. *)
AllFree == \A b \in Buckets : writer[b] = NoThread /\ readers[b] = {}

(* C24: Clear on a map that is already empty leaves Len() == 0 and every   *)
(* bucket empty, at every point of the call; a second Clear after a Clear  *)
(* leaves the state the first one left: counter 0, every table empty,      *)
(* every lock free.                                                        *)
C24_ClearIdempotent ==
    \A t \in Threads :
        FirstIs(t, "Clear") =>
            /\ setup.count = 0 => AllEmpty
            /\ Returned(t, 1) => (AllEmpty /\ AllFree)
            /\ Made(t) = 2 => AllEmpty
            /\ Returned(t, 2) => (AllEmpty /\ AllFree)

(* The second Clear of a map that held two entries has returned. *)
C24_Witness ==
    \E t \in Threads :
        /\ FirstIs(t, "Clear") /\ Returned(t, 2)
        /\ setup.count = 2
        /\ AllEmpty

(* The hash function options of the list, and the last option of a set of *)
(* positions.                                                              *)
HashOpts == {n \in 1..Len(options) : options[n].name = "WithHashFunc"}

LastOf(S) == options[CHOOSE n \in S : \A m \in S : m <= n]

(* What New resolves from the one option o alone. *)
Alone(o) ==
    LET a == IF o.name = "WithBuckets" THEN WithBuckets(ZeroOptions, o.mask)
             ELSE WithHashFunc(ZeroOptions, o.fn)
        b1 == IF a.bucketTotal = IntZero THEN defaultBucketCount ELSE a.bucketTotal
        b2 == IF Greater(b1, maxBucketCount) THEN maxBucketCount ELSE b1
    IN [a EXCEPT !.bucketTotal = b2]

(* C25: the resolved configuration holds, for each field, what the last    *)
(* option for that field in the argument list sets: the hash function of   *)
(* the last hash-function option and the bucket count of the last          *)
(* bucket-count option, whatever options there are for the other field     *)
(* and wherever they stand; a field no option sets has its default.        *)
C25_LastOptionWins ==
    Resolved =>
        /\ opt.hashFunc = IF HashOpts = {} THEN NilFunc
                          ELSE Alone(LastOf(HashOpts)).hashFunc
        /\ opt.bucketTotal = IF BucketOpts = {} THEN defaultBucketCount
                             ELSE Alone(LastOf(BucketOpts)).bucketTotal

(* New was given two hash-function options with different functions and    *)
(* has returned a map; the map uses the second.                            *)
C25_Witness ==
    /\ newPc = "returned"
    /\ newRet.m = "safeMap"
    /\ HashOpts = {1, 2}
    /\ options[1].fn # options[2].fn
    /\ opt.hashFunc = options[2].fn

(* ====================================================================== *)
(* SyncMap (TestSyncMapGetOrSet, TestSyncMapRange)                        *)
(* ====================================================================== *)
(* The calls of SyncMap modelled. *)
SyncCalls ==
    {Call("SyncGet", k, ZeroVal) : k \in Keys}
    \cup {Call(o, k, v) : o \in {"SyncSet", "SyncGetOrSet"}, k \in Keys, v \in Vals}
    \cup {Call("SyncRange", 1, 0)}

(* A SyncMap with any content (stored by Set before); one goroutine makes  *)
(* any call and then a Get of any key.  No safeMap is in use.              *)
InitSyncMap ==
    /\ syncMap \in Contents
    /\ options = <<>>
    /\ opt = ZeroOptions
    /\ newI = 1
    /\ newPc = "none"
    /\ newRet = NoMapYet
    /\ intBits = 64
    /\ hashFunc = [k \in Keys |-> 0]
    /\ innerMap = [b \in Buckets |-> EmptyMap]
    /\ count = 0
    /\ writer = [b \in Buckets |-> NoThread]
    /\ readers = [b \in Buckets |-> {}]
    /\ setup \in {[content |-> syncMap, count |-> Cardinality(DOMAIN syncMap)]}
    /\ \E x \in SyncCalls, k \in Keys :
          NoCalls([t \in Threads |->
                     IF t = 1 THEN <<x, Call("SyncGet", k, ZeroVal)>> ELSE <<>>])

NextSyncMap ==
    \E t \in Threads :
        \/ Invoke(t)
        \/ SyncGet(t) \/ SyncSet(t) \/ SyncGetOrSet(t) \/ SyncRange(t)

SpecSyncMap == InitSyncMap /\ [][NextSyncMap]_vars

(* C26: SyncMap.GetOrSet(k, v) of a key that is not stored stores v and    *)
(* returns (v, false); of a stored key it returns (the stored value, true) *)
(* and leaves the stored value.                                            *)
C26_SyncGetOrSet ==
    \A t \in Threads :
        (FirstIs(t, "SyncGetOrSet") /\ FirstReturned(t)) =>
            /\ syncMap = IF WasStored(t) THEN setup.content
                         ELSE Store(setup.content, FirstKey(t), plan[t][1].val)
            /\ Returned(t, 1) =>
                  ret[t] = IF WasStored(t)
                           THEN Result(setup.content[FirstKey(t)], TRUE)
                           ELSE Result(plan[t][1].val, FALSE)

(* The pairs the SyncMap holds. *)
SyncPairs == {<<k, syncMap[k]>> : k \in DOMAIN syncMap}

(* C27: SyncMap.Range(f) terminates for every content, and with an f that  *)
(* is always true it has called f exactly once for every stored key, with  *)
(* the stored value.                                                       *)
C27_SyncRangeVisitsAll ==
    \A t \in Threads :
        FirstIs(t, "SyncRange") =>
            /\ pc[t] # "fatal"
            /\ FirstReturned(t) =>
                  /\ PairsOf(visited[t]) = SyncPairs
                  /\ Len(visited[t]) = Cardinality(DOMAIN syncMap)

(* ====================================================================== *)
(* Clear's locking (SpecClear)                                            *)
(* ====================================================================== *)
(* Thread t is inside Clear. *)
InClear(t) == pc[t] \in {"ClearLock", "ClearDelete", "ClearCount", "ClearUnlock"}

(* The step is one of thread t's Clear: no other thread moves. *)
ClearStep(t) ==
    /\ InClear(t)
    /\ \A u \in Threads \ {t} : pc'[u] = pc[u]

(* Thread t gives up the lock of bucket b in the step. *)
Releases(t, b) == writer[b] = t /\ writer'[b] # t

(* Thread t takes the lock of bucket b in the step. *)
Acquires(t, b) == writer[b] # t /\ writer'[b] = t

RacingCalls ==
    {Call("OldDelete", k, ZeroVal) : k \in Keys}
    \cup {Call("Set", k, v) : k \in Keys, v \in Vals}

(* A map of the earlier version with any content.  Thread 1 calls Clear;   *)
(* each other thread makes at most one Set or Delete.  Len() is count.     *)
InitOldClear ==
    \E h \in [Keys -> Digests], c \in Contents,
       w \in [Threads \ {1} -> {<<>>} \cup {<<x>> : x \in RacingCalls}] :
        /\ NewMap(h, c)
        /\ NoCalls([t \in Threads |->
                      IF t = 1 THEN <<Call("OldClear", 1, ZeroVal)>>
                      ELSE w[t]])

NextOldClear ==
    \E t \in Threads :
        \/ Invoke(t)
        \/ OldClearLock(t) \/ OldClearMake(t) \/ OldClearUnlock(t) \/ OldClearStore(t)
        \/ SetLock(t) \/ SetCount(t) \/ SetWrite(t) \/ SetUnlock(t)
        \/ OldDeleteLock(t) \/ OldDeleteCount(t) \/ OldDeleteRemove(t) \/ OldDeleteUnlock(t)

SpecOldClear == InitOldClear /\ [][NextOldClear]_vars

(* Once every call has returned, Len() is the number of stored keys. *)
LenIsStoredKeys == Done => count = TotalEntries

(* Len() is not negative. *)
LenNotNegative == count >= 0

(* C29: the Clear that stores zero does so while it holds the bucket       *)
(* locks, so once the Clear and the Sets and Deletes racing with it have   *)
(* all returned, Len() is the number of stored keys, and it is never       *)
(* negative.                                                               *)
C29_ClearStoreUnderLocks ==
    /\ \A t \in Threads : pc[t] = "OldClearStore" => HoldsAll(t)
    /\ LenNotNegative
    /\ LenIsStoredKeys

(* ====================================================================== *)
(* No lock is held after a call has returned (Spec)                       *)
(* ====================================================================== *)
(* Thread t holds the lock of bucket b, exclusive or shared. *)
Holds(t, b) == writer[b] = t \/ t \in readers[b]

(* C30: after any operation has returned, on either of its paths, the      *)
(* calling thread holds no bucket lock: a lock that is held is held by a   *)
(* thread inside a call, and with no call running every lock is free for   *)
(* the next operation of any thread on any key.                            *)
C30_NoLockAfterReturn ==
    /\ \A t \in Threads : Idle(t) => \A b \in Buckets : ~Holds(t, b)
    /\ Quiescent => \A b \in Buckets : CanLock(b) /\ CanRLock(b)

(* The first call of a thread was a Range whose visitor returned false at  *)
(* the first visit (only Range fills visited, and val is the visit that    *)
(* stops it); it has returned, the thread is idle with its next call still *)
(* to make, two keys are stored and every lock is free.                    *)
C30_Witness ==
    \E t \in Threads :
        /\ Idle(t)
        /\ Len(prog[t]) = MaxOps - 1
        /\ val[t] = 1
        /\ Len(visited[t]) = 1
        /\ TotalEntries = 2
        /\ AllFree

(* ====================================================================== *)
(* A bucket's table is touched only under the bucket's lock (Spec)        *)
(* ====================================================================== *)
(* The labels at which a keyed call is between Lock and Unlock of the      *)
(* bucket of its key, and those at which Clear is, for bucket i.           *)
KeyedWriteLabels ==
    {"SetCount", "SetWrite", "SetUnlock",
     "DeleteRemove", "DeleteCount", "DeleteUnlock",
     "GetAndDeleteRemove", "GetAndDeleteCount", "GetAndDeleteUnlock",
     "GetOrSetWrite", "GetOrSetCount", "GetOrSetUnlock"}

ClearWriteLabels == {"ClearDelete", "ClearCount", "ClearUnlock"}

(* Thread t is in a critical section that writes the table of bucket b. *)
Writing(t, b) ==
    \/ pc[t] \in KeyedWriteLabels /\ b = index[t]
    \/ pc[t] \in ClearWriteLabels /\ b = i[t]

(* Thread t is in a critical section that only reads the table of b. *)
Reading(t, b) ==
    \/ pc[t] = "GetRUnlock" /\ b = index[t]
    \/ pc[t] = "RangeVisit"

(* The step is one of thread t: no other thread moves. *)
StepOf(t) == \A u \in Threads \ {t} : pc'[u] = pc[u]

(* C31: a bucket's table is written only by a thread that holds the        *)
(* bucket's exclusive lock and read only by a thread that holds its shared *)
(* or exclusive lock, and a writer of a bucket never coexists with another *)
(* writer or a reader of that bucket.                                      *)
C31_TableUnderLock ==
    /\ [](\A b \in Buckets :
            /\ writer[b] # NoThread => readers[b] = {}
            /\ \A t \in Threads :
                  /\ Writing(t, b) =>
                        /\ writer[b] = t
                        /\ \A u \in Threads \ {t} : ~Writing(u, b) /\ ~Reading(u, b)
                  /\ Reading(t, b) => Holds(t, b))
    /\ [][\A b \in Buckets :
            /\ innerMap'[b] # innerMap[b] =>
                  \E t \in Threads : StepOf(t) /\ writer[b] = t /\ writer'[b] = t
            /\ \A t \in Threads :
                  (StepOf(t) /\ (ret'[t] # ret[t] \/ visited'[t] # visited[t])
                     /\ pc'[t] \notin {"idle", "GetRLock", "SetLock", "DeleteLock",
                                       "GetAndDeleteLock", "GetOrSetLock", "ClearLock",
                                       "RangeLock", "Len", "IsEmpty"}
                     /\ (b = index[t] \/ visited'[t] # visited[t])) =>
                        writer'[b] = t \/ t \in readers'[b]]_vars

(* One thread is about to write the table of bucket 0 under its exclusive  *)
(* lock while another has read the table of bucket 1 under its shared lock. *)
C31_Witness ==
    \E t \in Threads, u \in Threads :
        /\ pc[t] = "SetWrite"
        /\ index[t] = 0
        /\ writer[0] = t
        /\ pc[u] = "GetRUnlock"
        /\ index[u] = 1
        /\ u \in readers[1]
        /\ ret[u] # NoResult

(* ====================================================================== *)
(* hashIndex on the map New has made, for every bucket count              *)
(* ====================================================================== *)
(* m.bucketTotal of the map New returned: a power of two, as a number. *)
madeBucketTotal == 2 ^ opt.bucketTotal.exp

(* hashIndex that masks with bucketTotal instead of bucketTotal - 1. *)
HashIndexAnd_NoDecrement(h, n) == BitAnd(h, n)

(* int(m.hashFunc(key) & uint64(m.bucketTotal-1)) for digest h *)
HashIndexAnd(h, n) == BitAnd(h, n - 1)

(* int(m.hashFunc(key) % uint64(m.bucketTotal)) for digest h *)
HashIndexMod(h, n) == h % n

(* New is called with a hash function and at most one WithBuckets(mask),   *)
(* for every mask, in a build of either width of int.  The hash function   *)
(* gives key 1 any digest up to MaxDigest and the other keys digest 0.     *)
InitRoute ==
    /\ \E tail \in {<<>>} \cup {<<o>> : o \in {x \in OptFuncs : x.name = "WithBuckets"}} :
          options = <<[name |-> "WithHashFunc", mask |-> 0, fn |-> 1]>> \o tail
    /\ intBits \in IntWidths
    /\ opt = ZeroOptions
    /\ newI = 1
    /\ newPc = "loadOpts"
    /\ newRet = NoMapYet
    /\ syncMap = EmptyMap
    /\ \E h \in 0..MaxDigest :
          hashFunc = [k \in Keys |-> IF k = 1 THEN h ELSE 0]
    /\ innerMap = [b \in Buckets |-> EmptyMap]
    /\ count = 0
    /\ writer = [b \in Buckets |-> NoThread]
    /\ readers = [b \in Buckets |-> {}]
    /\ setup = [content |-> EmptyMap, count |-> 0]
    /\ NoCalls([t \in Threads |-> <<>>])

(* index := m.hashIndex(key), the first statement of every keyed           *)
(* operation, by a goroutine that calls one on the map New returned.       *)
Route(t) ==
    /\ newPc = "returned"
    /\ newRet.m = "safeMap"
    /\ t <= NumCallers
    /\ \E k \in Keys :
          /\ key' = [key EXCEPT ![t] = k]
          /\ index' = [index EXCEPT ![t] = HashIndexAnd(hashFunc[k], madeBucketTotal)]
    /\ Goto(t, "routed")
    /\ UNCHANGED <<hashFunc, innerMap, count, writer, readers, prog, plan, setup, val,
                   i, bucketLen, ret, visited, syncMap, frames, ints, rwLock, rwRets,
                   options, opt, newI, newPc, newRet, intBits>>

NextRoute == LoadOpt \/ LoadOptsReturn \/ NewMake \/ \E t \in Threads : Route(t)

SpecRoute == InitRoute /\ [][NextRoute]_vars

(* C32: for every bucket count New resolves and every digest h, hashIndex  *)
(* returns an index in [0, bucket count) that equals h mod bucket count,   *)
(* and every routing of a key, by any operation at any time in the life of *)
(* the map, names the same bucket.                                         *)
C32_HashIndexIsMod ==
    /\ [](\A t \in Threads : pc[t] = "routed" =>
            /\ index[t] \in 0..(madeBucketTotal - 1)
            /\ index[t] = HashIndexMod(hashFunc[key[t]], madeBucketTotal)
            /\ \A u \in Threads :
                  (pc[u] = "routed" /\ key[u] = key[t]) => index[u] = index[t])
    /\ [][/\ hashFunc' = hashFunc
          /\ newPc = "returned" => opt' = opt
          /\ \A t \in Threads, u \in Threads :
                (pc[t] = "routed" /\ pc'[u] = "routed" /\ key'[u] = key[t]) =>
                    index'[u] = index[t]]_vars

(* A key whose digest is beyond the bucket count has been routed on a map  *)
(* of 256 buckets made from a mask above 8, and on another goroutine too.  *)
C32_Witness ==
    \E t \in Threads, u \in Threads :
        /\ t # u
        /\ pc[t] = "routed"
        /\ pc[u] = "routed"
        /\ key[u] = key[t]
        /\ madeBucketTotal = 256
        /\ Len(options) = 2
        /\ options[2].mask > 8
        /\ hashFunc[key[t]] > 256
        /\ index[t] = hashFunc[key[t]] - 256

(* ====================================================================== *)
(* Integer keys: NewSafeMapInteger's hash function, Hashint               *)
(* ====================================================================== *)
(* int8, a signed key type, and the value a Go expression of that type     *)
(* has when the mathematical result v is outside it (two's complement).    *)
Int8 == -(2 ^ 7)..(2 ^ 7 - 1)

MinInt8 == -(2 ^ 7)

WrapInt8(v) == ((v + 2 ^ 7) % (2 ^ 8)) - 2 ^ 7

(* -k in Go *)
Neg(k) == WrapInt8(0 - k)

(* uint64(k): k itself, and for a negative k the sign-extended word        *)
(* 2^64 + k, of which the low 16 bits are kept here; the mask of hashIndex *)
(* reads at most the low 8.                                                *)
ToUint64(k) == k % (2 ^ 16)

(* The hash function without the fold of negative keys. *)
Hashint_NoFold(k) == ToUint64(k)

(* if k < 0 { k = -k }; return uint64(k) *)
Hashint(k) == ToUint64(IF k < 0 THEN Neg(k) ELSE k)

(* The bucket counts New resolves to: 1 << 0 .. 1 << 8. *)
BucketCounts == {2 ^ e : e \in 0..maxBucketCount.exp}

(* The map keys that are the integer v. *)
KeyOfInt(v) == CHOOSE j \in Keys : ints[j] = v

(* The program of TestInteger, extended: Set(-k, x); Set(k, y); Get(-k);   *)
(* Get(k); Len(); GetOrSet(-k, z).  The first store, o, is made by Set or  *)
(* by GetOrSet, which stores as Set does on the new map.                   *)
IntegerProgram(o, k, x, y, z) ==
    <<Call(o, KeyOfInt(Neg(k)), x), Call("Set", KeyOfInt(k), y),
      Call("Get", KeyOfInt(Neg(k)), ZeroVal), Call("Get", KeyOfInt(k), ZeroVal),
      Call("Len", 1, ZeroVal), Call("GetOrSet", KeyOfInt(Neg(k)), z)>>

(* A new map of NewSafeMapInteger[int8, V].  Key 2 is any k of int8 and    *)
(* key 1 is -k, or, where -k is k itself (0 and the most negative value),  *)
(* another integer, which the program does not use.  One goroutine runs    *)
(* the program above with any values.                                      *)
InitInteger ==
    /\ \E k \in Int8 :
          ints = [j \in Keys |->
                    IF j = 2 THEN k
                    ELSE IF j = 1 /\ Neg(k) # k THEN Neg(k)
                    ELSE WrapInt8(k + 2 * j - 1)]
    /\ NewMap([j \in Keys |-> Hashint(ints[j])], EmptyMap)
    /\ pc = [t \in Threads |-> "idle"]
    /\ \E o \in {"Set", "GetOrSet"}, x \in Vals, y \in Vals, z \in Vals :
          /\ prog = [t \in Threads |->
                       IF t = 1 THEN IntegerProgram(o, ints[2], x, y, z) ELSE <<>>]
          /\ plan = prog
    /\ key = [t \in Threads |-> 1]
    /\ val = [t \in Threads |-> ZeroVal]
    /\ index = [t \in Threads |-> 0]
    /\ i = [t \in Threads |-> 0]
    /\ bucketLen = [t \in Threads |-> 0]
    /\ ret = [t \in Threads |-> NoResult]
    /\ visited = [t \in Threads |-> <<>>]
    /\ frames = [t \in Threads |-> 0]
    /\ rwLock = EmptyMap
    /\ rwRets = <<>>

NextInteger ==
    \E t \in Threads :
        \/ Invoke(t)
        \/ SetLock(t) \/ SetCount(t) \/ SetWrite(t) \/ SetUnlock(t)
        \/ GetRLock(t) \/ GetRUnlock(t)
        \/ MapLen(t)
        \/ GetOrSetLock(t) \/ GetOrSetWrite(t) \/ GetOrSetCount(t) \/ GetOrSetUnlock(t)

SpecInteger == InitInteger /\ [][NextInteger]_vars

(* The digest of every key gives a valid index for every bucket count, and *)
(* the calls made were routed to a bucket of the map.                      *)
ValidIndex ==
    /\ \A j \in Keys, n \in BucketCounts :
          HashIndexAnd(hashFunc[j], n) \in 0..(n - 1)
    /\ \A t \in Threads : index[t] \in Buckets

(* What the program of thread 1 has returned so far is what two distinct   *)
(* entries -k -> x and k -> y give.                                        *)
DistinctEntries ==
    LET x == plan[1][1].val
        y == plan[1][2].val
    IN /\ Returned(1, 3) => ret[1] = Result(x, TRUE)
       /\ Returned(1, 4) => ret[1] = Result(y, TRUE)
       /\ Returned(1, 5) => ret[1] = Result(2, TRUE)
       /\ Returned(1, 6) => ret[1] = Result(x, TRUE)
       /\ Made(1) >= 3 => count = 2 /\ TotalEntries = 2

(* C33 as stated: for every key k of the key type, the most negative       *)
(* included, the digest yields a valid bucket index, and for k # 0 the     *)
(* keys k and -k select the same bucket but are distinct entries: after    *)
(* Set(-k, x) and Set(k, y), Get(-k) returns (x, true), Get(k) returns     *)
(* (y, true), Len() is 2 and GetOrSet(-k, z) returns (x, true).            *)
C33_Original ==
    /\ ValidIndex
    /\ ints[2] # 0 =>
          /\ \A n \in BucketCounts :
                HashIndexAnd(Hashint(Neg(ints[2])), n) = HashIndexAnd(Hashint(ints[2]), n)
          /\ DistinctEntries

(* C33 (amended): the same, for a signed key type and for every k other    *)
(* than 0 and the most negative value of the type; -k of the most negative *)
(* value is that value itself, so there Set(-k, x) and Set(k, y) write one *)
(* entry: Len() is 1 and Get(-k) returns (y, true).                        *)
C33_IntegerKeys ==
    /\ ValidIndex
    /\ \A n \in BucketCounts :
          HashIndexAnd(Hashint(Neg(ints[2])), n) = HashIndexAnd(Hashint(ints[2]), n)
    /\ (ints[2] # 0 /\ ints[2] # MinInt8) => DistinctEntries
    /\ ints[2] = MinInt8 =>
          /\ Neg(ints[2]) = ints[2]
          /\ Returned(1, 3) => ret[1] = Result(plan[1][2].val, TRUE)
          /\ Returned(1, 5) => ret[1] = Result(1, TRUE)

(* The whole program has returned for a negative k other than the most     *)
(* negative value, with x # y: both entries are in one bucket.             *)
C33_Witness ==
    /\ ints[2] < 0
    /\ ints[2] # MinInt8
    /\ ints[1] = 0 - ints[2]
    /\ Finished(1)
    /\ Len(plan[1]) = 6
    /\ plan[1][1].op = "Set"
    /\ plan[1][1].val # plan[1][2].val
    /\ \E b \in Buckets : DOMAIN innerMap[b] = {1, 2}
    /\ ret[1] = Result(plan[1][1].val, TRUE)

(* ====================================================================== *)
(* Concurrent Set and Get of one key (TestRwLock_Concurrent on safeMap)   *)
(* ====================================================================== *)
(* The goroutine that calls Get after wg.Wait(). *)
Waiter == NumThreads

(* The calls on key k the concurrent goroutines make. *)
SameKeyCalls(k) == {Call("Set", k, v) : v \in Vals} \cup {Call("Get", k, ZeroVal)}

(* A new map.  Every goroutine but the last makes one or two calls, each a *)
(* Set(k, v) or a Get(k) of one key k; the last calls Get(k).              *)
InitSameKey ==
    \E h \in [Keys -> Digests], k \in Keys :
        /\ NewMap(h, EmptyMap)
        /\ \E ps \in [Threads \ {Waiter} ->
                         UNION {[1..n -> SameKeyCalls(k)] : n \in 1..MaxOps}] :
              NoCalls([t \in Threads |->
                         IF t = Waiter THEN <<Call("Get", k, ZeroVal)>> ELSE ps[t]])

(* wg.Wait() and then Get: the last goroutine makes its call when every    *)
(* other has returned from all of its calls.                               *)
InvokeInTurn(t) ==
    /\ t = Waiter => \A u \in Threads \ {Waiter} : Finished(u)
    /\ Invoke(t)

NextSameKey ==
    \E t \in Threads :
        \/ InvokeInTurn(t)
        \/ SetLock(t) \/ SetCount(t) \/ SetWrite(t) \/ SetUnlock(t)
        \/ GetRLock(t) \/ GetRUnlock(t)

SpecSameKey == InitSameKey /\ [][NextSameKey]_vars

(* The values v_i the concurrent Sets write. *)
Written ==
    {plan[t][j].val : <<t, j>> \in
        {x \in Threads \X (1..MaxOps) :
            x[2] <= Len(plan[x[1]]) /\ plan[x[1]][x[2]].op = "Set"}}

(* The call thread t made last is a Get, and it has returned. *)
GetReturned(t) == Idle(t) /\ Made(t) >= 1 /\ plan[t][Made(t)].op = "Get"

(* C34: after concurrent Set(k, v_i) calls on one key, interleaved with    *)
(* concurrent Get(k) calls, have all returned, Get(k) returns (v, true)    *)
(* for one of the written v_i and the map holds exactly one entry for k;   *)
(* every concurrent Get returned (zero, false) or one of the v_i.          *)
C34_SameKeySerialized ==
    /\ \A t \in Threads \ {Waiter} :
          GetReturned(t) => ret[t] \in {NoResult} \cup {Result(v, TRUE) : v \in Written}
    /\ (Written # {} /\ \A t \in Threads \ {Waiter} : Finished(t)) =>
          /\ TotalEntries = 1
          /\ count = 1
          /\ DOMAIN Content = {plan[Waiter][1].key}
          /\ Finished(Waiter) => ret[Waiter] \in {Result(v, TRUE) : v \in Written}

(* Two goroutines have set different values and a concurrent Get has read  *)
(* the one that was overwritten; the Get after the wait returned the other. *)
C34_Witness ==
    \E t \in Threads \ {Waiter} :
        /\ Cardinality(Written) = 2
        /\ Done
        /\ plan[t][Len(plan[t])].op = "Get"
        /\ ret[t].ok
        /\ ret[Waiter].ok
        /\ ret[t].val # ret[Waiter].val

(* ====================================================================== *)
(* A visitor of Range that calls the map                                  *)
(* ====================================================================== *)
(* The goroutine that calls Range, and the frame of its visitor f: the     *)
(* call f makes runs on the goroutine of Range, which goes on only when f  *)
(* has returned.  A sync.RWMutex does not know its holder, so the call of  *)
(* f waits for a lock Range holds as any other caller would.               *)
Ranger == 1

VisitorFrame == 2

(* The calls that take a bucket lock, and those that take none. *)
LockingOps == {"Get", "Set", "Delete", "GetAndDelete", "GetOrSet", "Clear", "Range"}

CountOps == {"Len", "IsEmpty"}

(* A map with any content.  The goroutine makes any call but Range and     *)
(* then calls Range with a visitor f that makes one call, the same at      *)
(* every visit, and returns true.                                          *)
InitVisitor ==
    \E h \in [Keys -> Digests], c \in Contents,
       first \in {x \in LockCalls : x.op # "Range"}, inF \in LockCalls :
        /\ NewMap(h, c)
        /\ NoCalls([t \in Threads |->
                      IF t = Ranger THEN <<first, Call("Range", 1, 0)>>
                      ELSE IF t = VisitorFrame THEN [j \in 1..NumKeys |-> inF]
                      ELSE <<>>])

(* Range is at an entry it has not handed to f yet. *)
AtVisit == pc[Ranger] = "RangeVisit" /\ Unvisited(Ranger, i[Ranger]) # {}

(* for key, val := range innerMap { if !f(key, val) ... }: f starts its     *)
(* call when Range reaches an entry, and the visit is over when the call   *)
(* of f has returned.                                                      *)
VisitorStep(t) ==
    /\ (t = VisitorFrame /\ Idle(t)) => (AtVisit /\ Made(t) = Len(visited[Ranger]))
    /\ (t = Ranger /\ AtVisit) =>
          (Idle(VisitorFrame) /\ Made(VisitorFrame) = Len(visited[Ranger]) + 1)
    /\ Step(t)

NextVisitor == VisitorStep(Ranger) \/ VisitorStep(VisitorFrame)

(* The goroutine is run whenever it can take a step. *)
SpecVisitor == InitVisitor /\ [][NextVisitor]_vars /\ WF_vars(NextVisitor)

(* The call f makes. *)
InF == plan[VisitorFrame][1]

(* f has started its call and waits at the first lock of the call. *)
VisitorBlocked ==
    /\ pc[VisitorFrame] = Entry(InF.op)
    /\ pc[Ranger] = "RangeVisit"
    /\ HoldsAll(Ranger)

(* C35: Range invokes the visitor while its goroutine holds the exclusive  *)
(* lock of every bucket.  A visitor that calls Get, Set, Delete,           *)
(* GetAndDelete, GetOrSet, Clear or Range on the same map blocks forever   *)
(* at the first lock of that call and the Range never returns; with a      *)
(* visitor that calls only Len or IsEmpty the Range returns.               *)
C35_VisitorUnderAllLocks ==
    /\ [](Made(VisitorFrame) >= 1 =>
            /\ ~Idle(VisitorFrame) => (pc[Ranger] = "RangeVisit" /\ HoldsAll(Ranger))
            /\ InF.op \in LockingOps => (VisitorBlocked /\ ~Finished(Ranger)))
    /\ [][(VisitorBlocked /\ InF.op \in LockingOps) => VisitorBlocked']_vars
    /\ (InF.op \in CountOps) ~> Finished(Ranger)

(* f has called Get on a map with two entries and waits; in another run f  *)
(* called Len twice and the Range has returned.                            *)
C35_Witness ==
    \/ /\ InF.op = "Get"
       /\ VisitorBlocked
       /\ TotalEntries = 2
    \/ /\ InF.op = "Len"
       /\ Finished(Ranger)
       /\ Made(VisitorFrame) = 2
       /\ Len(visited[Ranger]) = 2

(* ====================================================================== *)
(* RwLock (src/unnamed/part_006) and the sharded map on one history       *)
(* ====================================================================== *)
(* In a sequential history every method of RwLock finds its mutex free and *)
(* holds it from its first to its last statement: one step per method.     *)
(* What a method of RwLock leaves alone. *)
NotRwLock == <<hashFunc, innerMap, count, writer, readers, pc, prog, plan, setup,
               key, val, index, i, bucketLen, ret, visited,
               options, opt, newI, newPc, newRet, intBits, syncMap, frames, ints>>

(* The call the sharded map has returned from and RwLock has yet to make. *)
Pending(t, o) ==
    /\ Idle(t)
    /\ Len(rwRets) < Made(t)
    /\ plan[t][Len(rwRets) + 1].op = o

PendingKey(t) == plan[t][Len(rwRets) + 1].key

PendingVal(t) == plan[t][Len(rwRets) + 1].val

(* val, b := l.m[key]; return val, b *)
RwLockGet(t) ==
    /\ Pending(t, "Get")
    /\ rwRets' = Append(rwRets, Result(Lookup(rwLock, PendingKey(t)), Has(rwLock, PendingKey(t))))
    /\ UNCHANGED <<NotRwLock, rwLock>>

(* l.m[key] = val *)
RwLockSet(t) ==
    /\ Pending(t, "Set")
    /\ rwLock' = Store(rwLock, PendingKey(t), PendingVal(t))
    /\ rwRets' = Append(rwRets, NoResult)
    /\ UNCHANGED NotRwLock

(* delete(l.m, key) *)
RwLockDelete(t) ==
    /\ Pending(t, "Delete")
    /\ rwLock' = Remove(rwLock, PendingKey(t))
    /\ rwRets' = Append(rwRets, NoResult)
    /\ UNCHANGED NotRwLock

(* if val, b := l.m[key]; b { delete; return val, true } else             *)
(* { return val, false }                                                   *)
RwLockGetAndDelete(t) ==
    /\ Pending(t, "GetAndDelete")
    /\ rwLock' = Remove(rwLock, PendingKey(t))
    /\ rwRets' = Append(rwRets, Result(Lookup(rwLock, PendingKey(t)), Has(rwLock, PendingKey(t))))
    /\ UNCHANGED NotRwLock

(* if val, b := l.m[key]; b { return val, true }; l.m[key] = val;          *)
(* return val, false                                                       *)
RwLockGetOrSet(t) ==
    /\ Pending(t, "GetOrSet")
    /\ IF Has(rwLock, PendingKey(t))
       THEN /\ rwLock' = rwLock
            /\ rwRets' = Append(rwRets, Result(rwLock[PendingKey(t)], TRUE))
       ELSE /\ rwLock' = Store(rwLock, PendingKey(t), PendingVal(t))
            /\ rwRets' = Append(rwRets, Result(PendingVal(t), FALSE))
    /\ UNCHANGED NotRwLock

(* return len(l.m) *)
RwLockLen(t) ==
    /\ Pending(t, "Len")
    /\ rwRets' = Append(rwRets, Result(Cardinality(DOMAIN rwLock), TRUE))
    /\ UNCHANGED <<NotRwLock, rwLock>>

(* The calls of a history. *)
HistoryCalls ==
    {c \in AllCalls : c.op \in {"Get", "Set", "Delete", "GetAndDelete", "GetOrSet", "Len"}}

(* A new sharded map with any hash function and a new RwLock map; one      *)
(* goroutine makes up to MaxSeq calls, each on the sharded map and then on *)
(* the RwLock map.                                                         *)
InitHistory ==
    /\ \E h \in [Keys -> Digests] : NewMap(h, EmptyMap)
    /\ \E p \in UNION {[1..n -> HistoryCalls] : n \in 0..MaxSeq} :
          NoCalls([t \in Threads |-> IF t = 1 THEN p ELSE <<>>])

(* The next call is made when both maps have returned from the last. *)
InvokeNext(t) ==
    /\ Len(rwRets) = Made(t)
    /\ Invoke(t)

NextHistory ==
    \E t \in Threads :
        \/ InvokeNext(t)
        \/ GetRLock(t) \/ GetRUnlock(t)
        \/ SetLock(t) \/ SetCount(t) \/ SetWrite(t) \/ SetUnlock(t)
        \/ DeleteLock(t) \/ DeleteRemove(t) \/ DeleteCount(t) \/ DeleteUnlock(t)
        \/ GetAndDeleteLock(t) \/ GetAndDeleteRemove(t) \/ GetAndDeleteCount(t)
        \/ GetAndDeleteUnlock(t)
        \/ GetOrSetLock(t) \/ GetOrSetWrite(t) \/ GetOrSetCount(t) \/ GetOrSetUnlock(t)
        \/ MapLen(t)
        \/ RwLockGet(t) \/ RwLockSet(t) \/ RwLockDelete(t) \/ RwLockGetAndDelete(t)
        \/ RwLockGetOrSet(t) \/ RwLockLen(t)

SpecHistory == InitHistory /\ [][NextHistory]_vars

(* Both maps have returned from call j of the history. *)
BothReturned(t, j) == Returned(t, j) /\ Len(rwRets) = j

(* C36: on every sequential history of Get, Set, Delete, GetAndDelete,     *)
(* GetOrSet and Len the sharded map returns what the single-lock RwLock    *)
(* map returns, call by call, for every hash function, one that sends all  *)
(* keys to one bucket included; the two maps hold the same entries.        *)
C36_SameAsRwLock ==
    \A t \in Threads, j \in 1..MaxSeq :
        BothReturned(t, j) =>
            /\ ret[t] = rwRets[j]
            /\ Content = rwLock

(* A history of MaxSeq calls has returned on both maps: it stored two keys *)
(* in one bucket and ended with a GetAndDelete that found its key.         *)
C36_Witness ==
    /\ BothReturned(1, MaxSeq)
    /\ hashFunc[1] = hashFunc[2]
    /\ plan[1][MaxSeq].op = "GetAndDelete"
    /\ rwRets[MaxSeq].ok
    /\ TotalEntries = 1
    /\ \E j \in 1..MaxSeq : plan[1][j].op = "GetOrSet" /\ ~rwRets[j].ok

(* ====================================================================== *)
(* One Range concurrent with one Clear                                    *)
(* ====================================================================== *)
(* A map with any content; thread 1 calls Clear and thread 2 calls Range   *)
(* with a visitor that always returns true.  No other call is made.        *)
InitClearRange ==
    \E h \in [Keys -> Digests], c \in Contents :
        /\ NewMap(h, c)
        /\ NoCalls([t \in Threads |->
                      CASE t = 1 -> <<Call("Clear", 1, ZeroVal)>>
                        [] t = 2 -> <<Call("Range", 1, 0)>>
                        [] OTHER -> <<>>])

NextClearRange ==
    \E t \in Threads :
        \/ Invoke(t)
        \/ ClearLock(t) \/ ClearDelete(t) \/ ClearCount(t) \/ ClearUnlock(t)
        \/ RangeLock(t) \/ RangeVisit(t) \/ RangeUnlock(t)

SpecClearRange == InitClearRange /\ [][NextClearRange]_vars

(* The entries stored before the Clear in the buckets from j upwards. *)
StoredFrom(j) ==
    {<<k, setup.content[k]>> : k \in {x \in DOMAIN setup.content : hashIndex(x) >= j}}

NoClearCalls ==
    {Call(o, k, ZeroVal) : o \in {"Delete", "GetAndDelete", "OldDelete"}, k \in Keys}
    \cup {Call(o, k, v) : o \in KeyValOps, k \in Keys, v \in Vals}
    \cup {Call("IsEmpty", 1, ZeroVal)}

(* A map with any content; every caller makes one call, any but Clear. *)
InitNoClear ==
    /\ \E h \in [Keys -> Digests], c \in Contents : NewMap(h, c)
    /\ NoCalls([t \in Threads |-> IF t <= NumCallers THEN <<AnyOf(NoClearCalls)>> ELSE <<>>])

NextNoClear ==
    \E t \in Threads :
        \/ Invoke(t)
        \/ SetLock(t) \/ SetCount(t) \/ SetWrite(t) \/ SetUnlock(t)
        \/ GetOrSetLock(t) \/ GetOrSetWrite(t) \/ GetOrSetCount(t) \/ GetOrSetUnlock(t)
        \/ DeleteLock(t) \/ DeleteRemove(t) \/ DeleteCount(t) \/ DeleteUnlock(t)
        \/ GetAndDeleteLock(t) \/ GetAndDeleteRemove(t) \/ GetAndDeleteCount(t)
        \/ GetAndDeleteUnlock(t)
        \/ OldDeleteLock(t) \/ OldDeleteCount(t) \/ OldDeleteRemove(t) \/ OldDeleteUnlock(t)
        \/ IsEmpty(t)

SpecNoClear == InitNoClear /\ [][NextNoClear]_vars

(* The entries a decrement-first Delete has taken off the counter and not  *)
(* yet deleted.                                                            *)
Undeleted == Cardinality({t \in Threads : pc[t] = "OldDeleteRemove"})

(* C38 as stated: at every instant of an execution without Clear, if the   *)
(* size counter reads 0 (IsEmpty() would return true), no bucket table     *)
(* holds any entry, even while Set, GetOrSet, Delete or GetAndDelete calls *)
(* are part-way through their critical sections.                           *)
C38_Original == count = 0 => TotalEntries = 0

(* C38 (amended): at every instant of an execution without Clear, if the   *)
(* size counter reads 0, the bucket tables hold no entries but those of    *)
(* calls inside their critical section between table and counter update:   *)
(* stored by a GetOrSet that has not yet incremented the counter, or, in   *)
(* the version whose Delete decrements first, about to be deleted.  With   *)
(* no such call in progress no bucket table holds any entry.               *)
C38_ZeroCountPending ==
    count = 0 => TotalEntries = Unadded + Undeleted

(* A GetOrSet has stored its key in an empty map and not yet counted it:   *)
(* the counter reads 0 and one entry is stored.                            *)
C38_Witness ==
    \E t \in Threads :
        /\ pc[t] = "GetOrSetCount"
        /\ count = 0
        /\ TotalEntries = 1
        /\ Undeleted = 0

====
